---------------------------- MODULE Spec2Model ----------------------------
(***************************************************************************)
(* A model of the NBT codecs of nbtify: the binary writer (src/write.ts),  *)
(* the binary reader and its format probe (read.ts), the SNBT writer and   *)
(* reader, and the primitive wrappers (src/primitive.ts).                  *)
(*                                                                         *)
(* Bytes are integers 0..255, buffers are sequences of bytes, strings are  *)
(* sequences of code points.  A JavaScript value is a record [js, v]: js   *)
(* is its runtime class and v its payload.  A 64-bit integer or an IEEE    *)
(* number is held as its big-endian two's-complement / IEEE byte pattern,  *)
(* so that no value of the model leaves the 32-bit range of the checker.   *)
(***************************************************************************)
EXTENDS Integers, Sequences, FiniteSets, TLC

VARIABLES
    pc,        \* position of the caller's script
    tree,      \* the caller's value (a JS value) or NoValue
    opts,      \* the caller's options record
    data,      \* the byte buffer the caller holds
    text,      \* the SNBT string the caller holds
    res,       \* outcome of the first codec call
    res2,      \* outcome of the second codec call
    res3       \* outcome of the third codec call

vars == <<pc, tree, opts, data, text, res, res2, res3>>

---------------------------------------------------------------------------
(* Generic helpers                                                         *)

Reverse(s) == [i \in 1..Len(s) |-> s[Len(s) + 1 - i]]

Slice(s, from, to) == [i \in 1..(to - from) |-> s[from + i]]
    \* JS slice/subarray on 0-based offsets: elements from..to-1

RECURSIVE Flatten(_)
Flatten(ss) == IF ss = <<>> THEN <<>> ELSE Head(ss) \o Flatten(Tail(ss))

Min(a, b) == IF a < b THEN a ELSE b

Max(a, b) == IF a > b THEN a ELSE b

NoValue == [js |-> "none", v |-> 0]

---------------------------------------------------------------------------
(* Tag ids                                                                 *)

TAG == [END |-> 0, BYTE |-> 1, SHORT |-> 2, INT |-> 3, LONG |-> 4,
        FLOAT |-> 5, DOUBLE |-> 6, BYTE_ARRAY |-> 7, STRING |-> 8,
        LIST |-> 9, COMPOUND |-> 10, INT_ARRAY |-> 11, LONG_ARRAY |-> 12]

NoType == 99   \* getTagType's null

\* isTagType: the byte is one of the thirteen tag ids.
isTagType(type) == type \in 0..12

---------------------------------------------------------------------------
(* Primitive wrappers (src/primitive.ts).  A JS number given to a wrapper  *)
(* is modelled by [hi, lo]: the integer hi * 2^32 + lo with lo a signed    *)
(* 32-bit integer; ToInt32 keeps lo.                                       *)

ToInt32(x) == x.lo

\* value & 0xFF: the low byte without its sign
LowByte(w) == w % 256

\* value << 24 >> 24 on a signed 32-bit integer
ShlShr24(w) == (((w % 256) + 128) % 256) - 128

\* value << 16 >> 16 on a signed 32-bit integer
ShlShr16(w) == (((w % 65536) + 32768) % 65536) - 32768

Byte(x) == [js |-> "Byte", v |-> ShlShr24(ToInt32(x))]

Short(x) == [js |-> "Short", v |-> ShlShr16(ToInt32(x))]

\* class Int (named Int32 in the later revision)
Int32(x) == [js |-> "Int", v |-> ToInt32(x)]

Float(bits) == [js |-> "Float", v |-> bits]

\* a JS number that is a small integer
Num(n) == [hi |-> 0, lo |-> n]

\* The other JS values a tree is made of.
Bool(b) == [js |-> "boolean", v |-> b]
BigInt(bytes8) == [js |-> "bigint", v |-> bytes8]
Double(bytes8) == [js |-> "number", v |-> bytes8]
\* A string is held as a unit of code points and a count: the string is the
\* unit repeated count times ("a".repeat(65536) is <<97>> with 65536).
Str(cps) == [js |-> "string", v |-> cps, times |-> 1]
StrRepeat(cps, count) == [js |-> "string", v |-> cps, times |-> count]
\* the code points of a string
Chars(string) ==
    IF string.times = 1 THEN string.v
    ELSE [i \in 1..(Len(string.v) * string.times) |-> string.v[((i - 1) % Len(string.v)) + 1]]
Arr(items) == [js |-> "Array", v |-> items]
Obj(entries) == [js |-> "Object", v |-> entries]
Int8Array(items) == [js |-> "Int8Array", v |-> items]
Int32Array(items) == [js |-> "Int32Array", v |-> items]
BigInt64Array(items) == [js |-> "BigInt64Array", v |-> items]
Undefined == [js |-> "undefined", v |-> 0]

\* getTagType: the tag id of a JS value, NoType when it is not a tag.
getTagType(value) ==
    CASE value.js = "boolean" -> TAG.BYTE
      [] value.js = "Byte" -> TAG.BYTE
      [] value.js = "Short" -> TAG.SHORT
      [] value.js = "Int" -> TAG.INT
      [] value.js = "bigint" -> TAG.LONG
      [] value.js = "Float" -> TAG.FLOAT
      [] value.js = "number" -> TAG.DOUBLE
      [] value.js = "Int8Array" -> TAG.BYTE_ARRAY
      [] value.js = "string" -> TAG.STRING
      [] value.js = "Array" -> TAG.LIST
      [] value.js = "Object" -> TAG.COMPOUND
      [] value.js = "Int32Array" -> TAG.INT_ARRAY
      [] value.js = "BigInt64Array" -> TAG.LONG_ARRAY
      [] OTHER -> NoType

---------------------------------------------------------------------------
(* JS objects.  An object is the sequence of its own enumerable entries    *)
(* [k, t] in property order: array-index keys in ascending numeric order,  *)
(* then the other keys in insertion order.                                 *)

IsDigit(c) == c \in 48..57

\* canonical array index below 2^31 (a digit string with no leading zero)
IsArrayIndex(k) ==
    /\ Len(k) \in 1..9
    /\ \A i \in 1..Len(k) : IsDigit(k[i])
    /\ (Len(k) > 1 => k[1] # 48)

RECURSIVE IndexValue(_)
IndexValue(k) ==
    IF k = <<>> THEN 0 ELSE IndexValue(SubSeq(k, 1, Len(k) - 1)) * 10 + (k[Len(k)] - 48)

HasKey(entries, k) == \E i \in 1..Len(entries) : entries[i].k = k

\* obj[k] = t
ObjSet(entries, k, t) ==
    IF HasKey(entries, k)
    THEN [i \in 1..Len(entries) |->
            IF entries[i].k = k THEN [k |-> k, t |-> t] ELSE entries[i]]
    ELSE IF IsArrayIndex(k)
    THEN LET before == {i \in 1..Len(entries) :
                           /\ IsArrayIndex(entries[i].k)
                           /\ IndexValue(entries[i].k) < IndexValue(k)}
             n == Cardinality(before)
         IN SubSeq(entries, 1, n) \o <<[k |-> k, t |-> t]>>
                \o SubSeq(entries, n + 1, Len(entries))
    ELSE Append(entries, [k |-> k, t |-> t])

RECURSIVE DecimalDigits(_)
DecimalDigits(n) ==
    IF n < 10 THEN <<48 + n>> ELSE Append(DecimalDigits(n \div 10), 48 + (n % 10))

\* Object.entries of a JS value: an object's entries, an array's elements
\* under their index keys.
ObjectEntries(value) ==
    IF value.js = "Object" THEN value.v
    ELSE IF value.js = "Array"
    THEN [i \in 1..Len(value.v) |-> [k |-> DecimalDigits(i - 1), t |-> value.v[i]]]
    ELSE <<>>

---------------------------------------------------------------------------
(* Options.  An endian or compression option is a string: its value,      *)
(* "undefined" or "null".  Any other option is a record [k, v]: k is the   *)
(* type of the value and v the value.  Records of different k are never    *)
(* compared with =.                                                        *)

Undef == [k |-> "undefined", v |-> 0]
Null == [k |-> "null", v |-> 0]
SomeBool(b) == [k |-> "boolean", v |-> b]
SomeString(string) == [k |-> "string", v |-> string]
SomeNumber(n) == [k |-> "number", v |-> n]
SomeInt(n) == [k |-> "Int", v |-> n]         \* an Int32 wrapper object

\* The envelope object NBTData: the tree and its four format fields.
NBTData(root, name, endian, compression, bedrockLevel) ==
    [js |-> "NBTData",
     v |-> [data |-> root, name |-> name, endian |-> endian,
            compression |-> compression, bedrockLevel |-> bedrockLevel]]

\* typeof value === "object" && value !== null
IsObject(value) ==
    value.js \in {"Object", "Array", "Int8Array", "Int32Array", "BigInt64Array",
                  "Byte", "Short", "Int", "Float", "NBTData"}

---------------------------------------------------------------------------
(* Byte encodings of DataView                                              *)

Order(bytes, le) == IF le THEN Reverse(bytes) ELSE bytes

\* setInt8 / setUint8
Int8Bytes(value) == <<value % 256>>

\* setInt16 / setUint16: the value modulo 2^16
Int16Bytes(value, le) ==
    LET w == value % 65536 IN Order(<<w \div 256, w % 256>>, le)

\* setInt32 / setUint32 of a value in the signed 32-bit range
Int32Bytes(value, le) ==
    Order(<<(value \div 16777216) % 256, (value \div 65536) % 256,
            (value \div 256) % 256, value % 256>>, le)

\* TextEncoder.encode: UTF-8 of one code point
Utf8(cp) ==
    IF cp < 128 THEN <<cp>>
    ELSE IF cp < 2048 THEN <<192 + (cp \div 64), 128 + (cp % 64)>>
    ELSE IF cp < 65536
    THEN <<224 + (cp \div 4096), 128 + ((cp \div 64) % 64), 128 + (cp % 64)>>
    ELSE <<240 + (cp \div 262144), 128 + ((cp \div 4096) % 64),
           128 + ((cp \div 64) % 64), 128 + (cp % 64)>>

IsAscii(string) == \A i \in 1..Len(string) : string[i] < 128

TextEncode(string) ==
    IF IsAscii(string) THEN string
    ELSE Flatten([i \in 1..Len(string) |-> Utf8(string[i])])

---------------------------------------------------------------------------
(* NBTWriter (src/write.ts).  The writer's state w is the record of its    *)
(* private fields: the bytes written so far (#data up to #byteOffset), the *)
(* capacity of #data, #littleEndian, and whether a throw has ended it.     *)

InitialCapacity == 1024

NewWriter(le) ==
    [ok |-> TRUE, err |-> "", le |-> le, bytes |-> <<>>, cap |-> InitialCapacity]

Throw(w, err) == IF w.ok THEN [w EXCEPT !.ok = FALSE, !.err = err] ELSE w

RECURSIVE Grow(_, _)
Grow(length, required) == IF length < required THEN Grow(length * 2, required) ELSE length

\* #allocate
WriterAllocate(w, byteLength) ==
    LET required == Len(w.bytes) + byteLength
    IN IF w.cap >= required THEN w ELSE [w EXCEPT !.cap = Grow(w.cap, required)]

\* allocate, store the bytes at #byteOffset, advance #byteOffset
Put(w, bytes) ==
    IF ~w.ok THEN w
    ELSE [WriterAllocate(w, Len(bytes)) EXCEPT !.bytes = @ \o bytes]

writeUnsignedByte(w, value) == Put(w, Int8Bytes(value))

writeTagType(w, type) == writeUnsignedByte(w, type)

writeByte(w, value) == Put(w, Int8Bytes(value))

writeUnsignedShort(w, value) == Put(w, Int16Bytes(value, w.le))

writeShort(w, value) == Put(w, Int16Bytes(value, w.le))

writeInt(w, value) == Put(w, Int32Bytes(value, w.le))

\* setBigInt64 keeps the low 64 bits of the bigint
AsInt64(value) == SubSeq(value, Len(value) - 7, Len(value))

writeLong(w, value) == Put(w, Order(AsInt64(value), w.le))

writeFloat(w, value) == Put(w, Order(value, w.le))

writeDouble(w, value) == Put(w, Order(value, w.le))

writeByteArray(w, value) ==
    Put(writeInt(w, Len(value)), [i \in 1..Len(value) |-> value[i] % 256])

writeString(w, value) ==
    LET Set(entry) == Put(writeUnsignedShort(w, Len(entry)), entry)
    IN Set(TextEncode(value))

RECURSIVE writeIntArrayFrom(_, _, _)
writeIntArrayFrom(w, value, i) ==
    IF i > Len(value) THEN w ELSE writeIntArrayFrom(writeInt(w, value[i]), value, i + 1)

writeIntArray(w, value) == writeIntArrayFrom(writeInt(w, Len(value)), value, 1)

RECURSIVE writeLongArrayFrom(_, _, _)
writeLongArrayFrom(w, value, i) ==
    IF i > Len(value) THEN w ELSE writeLongArrayFrom(writeLong(w, value[i]), value, i + 1)

writeLongArray(w, value) == writeLongArrayFrom(writeInt(w, Len(value)), value, 1)

\* Number(value) of a ByteTag or a boolean
NumberOf(value) ==
    IF value.js = "boolean" THEN (IF value.v THEN 1 ELSE 0) ELSE value.v

\* valueUnsafe.filter(entry => getTagType(entry) !== null)
RECURSIVE FilterTags(_)
FilterTags(items) ==
    IF Len(items) = 0 THEN <<>>
    ELSE IF getTagType(Head(items)) # NoType
         THEN <<Head(items)>> \o FilterTags(Tail(items))
         ELSE FilterTags(Tail(items))

HeterogeneousListError ==
    "TypeError: Encountered unexpected item type in array, all tags in a List tag must be of the same type"

RECURSIVE writeTag(_, _)
RECURSIVE writeListEntries(_, _, _, _)
RECURSIVE writeCompoundEntries(_, _, _)

writeList(w, valueUnsafe) ==
    LET Entries(value, type) ==
            writeListEntries(writeInt(writeTagType(w, type), Len(value)), value, type, 1)
        Typed(value) ==
            Entries(value, IF Len(value) # 0 THEN getTagType(value[1]) ELSE TAG.END)
    IN Typed(FilterTags(valueUnsafe))

\* #writeList without the check of each entry's type
writeListEntriesUnchecked(w, value, type, i) ==
    IF ~w.ok \/ i > Len(value) THEN w
    ELSE writeListEntries(writeTag(w, value[i]), value, type, i + 1)

writeListEntries(w, value, type, i) ==
    IF ~w.ok \/ i > Len(value) THEN w
    ELSE IF getTagType(value[i]) # type THEN Throw(w, HeterogeneousListError)
    ELSE writeListEntries(writeTag(w, value[i]), value, type, i + 1)

writeCompound(w, valueUnsafe) ==
    writeTagType(writeCompoundEntries(w, ObjectEntries(valueUnsafe), 1), TAG.END)

writeCompoundEntries(w, entries, i) ==
    IF ~w.ok \/ i > Len(entries) THEN w
    ELSE LET type == getTagType(entries[i].t)
         IN IF type = NoType THEN writeCompoundEntries(w, entries, i + 1)
            ELSE writeCompoundEntries(
                     writeTag(writeString(writeTagType(w, type), entries[i].k),
                              entries[i].t),
                     entries, i + 1)

writeTag(w, value) ==
    LET type == getTagType(value)
    IN CASE type = TAG.BYTE -> writeByte(w, NumberOf(value))
         [] type = TAG.SHORT -> writeShort(w, value.v)
         [] type = TAG.INT -> writeInt(w, value.v)
         [] type = TAG.LONG -> writeLong(w, value.v)
         [] type = TAG.FLOAT -> writeFloat(w, value.v)
         [] type = TAG.DOUBLE -> writeDouble(w, value.v)
         [] type = TAG.BYTE_ARRAY -> writeByteArray(w, value.v)
         [] type = TAG.STRING -> writeString(w, Chars(value))
         [] type = TAG.LIST -> writeList(w, value.v)
         [] type = TAG.COMPOUND -> writeCompound(w, value)
         [] type = TAG.INT_ARRAY -> writeIntArray(w, value.v)
         [] type = TAG.LONG_ARRAY -> writeLongArray(w, value.v)
         [] OTHER -> w

\* The outcome of a call that returns bytes or throws.
Bytes(bytes) == [ok |-> TRUE, err |-> "", bytes |-> bytes]
BytesError(err) == [ok |-> FALSE, err |-> err, bytes |-> <<>>]

\* the mutation of Inherit that prefers the envelope's field to the option
InheritEnvelopeFirst(option, value, field) ==
    IF value.js = "NBTData" THEN field ELSE option

\* if (option === undefined) option = data.field, for an option record
Inherit(option, value, field) ==
    IF value.js = "NBTData" /\ option.k = "undefined" THEN field ELSE option

\* if (option === undefined) option = data.field, for an option string
InheritName(option, value, field) ==
    IF value.js = "NBTData" /\ option = "undefined" THEN field ELSE option

Unwrap(value) == IF value.js = "NBTData" THEN value.v.data ELSE value

\* NBTWriter.write(data, { name, endian })
NBTWriterWrite(dataIn, nameOpt, endianOpt) ==
    LET Result(w) == IF w.ok THEN Bytes(w.bytes) ELSE BytesError(w.err)
        Root(w, root) == Result(WriterAllocate(writeCompound(w, root), 0))
        Named(w, name, root) ==
            Root(IF name.k # "null" THEN writeString(w, name.v) ELSE w, root)
        Checked(name, endian, root) ==
            IF ~IsObject(root) THEN BytesError("TypeError: First parameter must be an object")
            ELSE IF name.k \notin {"string", "null"}
            THEN BytesError("TypeError: Name option must be a string or null")
            ELSE IF endian \notin {"big", "little"}
            THEN BytesError("TypeError: Endian option must be a valid endian type")
            ELSE Named(writeTagType(NewWriter(endian = "little"), TAG.COMPOUND), name, root)
        Defaulted(name, endian) ==
            Checked(IF name.k = "undefined" THEN SomeString(<<>>) ELSE name,
                    IF endian = "undefined" THEN "big" ELSE endian,
                    Unwrap(dataIn))
    IN Defaulted(Inherit(nameOpt, dataIn,
                         IF dataIn.js = "NBTData" THEN dataIn.v.name ELSE Undef),
                 InheritName(endianOpt, dataIn,
                             IF dataIn.js = "NBTData" THEN dataIn.v.endian ELSE "undefined"))

---------------------------------------------------------------------------
(* 32-bit integer operators of JavaScript, on signed 32-bit integers.      *)
(* A word is held as its 32 bits, least significant first.                 *)

MinInt32 == (-2147483647) - 1

\* the powers of two below 2^31
Pow2 == << 1, 2, 4, 8, 16, 32, 64, 128, 256, 512, 1024, 2048, 4096, 8192, 16384,
           32768, 65536, 131072, 262144, 524288, 1048576, 2097152, 4194304,
           8388608, 16777216, 33554432, 67108864, 134217728, 268435456,
           536870912, 1073741824 >>

ToBits(x) == [i \in 1..32 |-> IF i = 32 THEN (IF x < 0 THEN 1 ELSE 0)
                                        ELSE (x \div Pow2[i]) % 2]

\* the value of bits i..31
RECURSIVE BitsSum(_, _)
BitsSum(bits, i) == IF i > 31 THEN 0 ELSE bits[i] * Pow2[i] + BitsSum(bits, i + 1)

FromBits(bits) == BitsSum(bits, 1) + (IF bits[32] = 1 THEN MinInt32 ELSE 0)

BitAnd(x, y) == FromBits([i \in 1..32 |-> IF ToBits(x)[i] = 1 /\ ToBits(y)[i] = 1 THEN 1 ELSE 0])

BitOr(x, y) == FromBits([i \in 1..32 |-> IF ToBits(x)[i] = 1 \/ ToBits(y)[i] = 1 THEN 1 ELSE 0])

BitXor(x, y) == FromBits([i \in 1..32 |-> IF ToBits(x)[i] # ToBits(y)[i] THEN 1 ELSE 0])

\* x << n: the shift count is taken modulo 32
Shl(x, n) ==
    LET k == n % 32
        b == ToBits(x)
    IN FromBits([i \in 1..32 |-> IF i - k >= 1 THEN b[i - k] ELSE 0])

\* x >> n (sign-propagating): the shift count is taken modulo 32
Sar(x, n) ==
    LET k == n % 32
        b == ToBits(x)
    IN FromBits([i \in 1..32 |-> IF i + k <= 32 THEN b[i + k] ELSE b[32]])

---------------------------------------------------------------------------
(* Byte decodings of DataView                                              *)

\* getInt8 of a byte
Int8Of(byte) == IF byte >= 128 THEN byte - 256 ELSE byte

\* getUint16
Uint16Of(bytes, le) == LET b == Order(bytes, le) IN b[1] * 256 + b[2]

\* getInt16
Int16Of(bytes, le) == LET b == Order(bytes, le) IN Int8Of(b[1]) * 256 + b[2]

\* getInt32
Int32Of(bytes, le) ==
    LET b == Order(bytes, le)
    IN Int8Of(b[1]) * 16777216 + b[2] * 65536 + b[3] * 256 + b[4]

ReplacementChar == 65533

\* MUtf8Decoder.decode of the external mutf-8 package, not fatal: one, two
\* and three byte sequences; any other byte decodes to U+FFFD.
RECURSIVE MUtf8From(_, _)
MUtf8From(bytes, i) ==
    IF i > Len(bytes) THEN <<>>
    ELSE LET a == bytes[i]
             cont(j) == j <= Len(bytes) /\ bytes[j] \in 128..191
         IN IF a < 128 THEN <<a>> \o MUtf8From(bytes, i + 1)
            ELSE IF a \in 192..223 /\ cont(i + 1)
            THEN <<(a - 192) * 64 + (bytes[i + 1] - 128)>> \o MUtf8From(bytes, i + 2)
            ELSE IF a \in 224..239 /\ cont(i + 1) /\ cont(i + 2)
            THEN <<(a - 224) * 4096 + (bytes[i + 1] - 128) * 64 + (bytes[i + 2] - 128)>>
                     \o MUtf8From(bytes, i + 3)
            ELSE <<ReplacementChar>> \o MUtf8From(bytes, i + 1)

MUtf8Decode(bytes) ==
    IF \A i \in 1..Len(bytes) : bytes[i] < 128 THEN bytes ELSE MUtf8From(bytes, 1)

---------------------------------------------------------------------------
(* NBTReader (read.ts).  The reader's state rd is the record of its        *)
(* private fields #data, #byteOffset, #littleEndian and #varint, whether a *)
(* throw has ended it, and the number of payloads read so far.  Every read *)
(* returns [rd, v]: the state after it and the value read.                 *)

MaxSteps == 8   \* payload reads, beyond one per byte of the buffer, after which a read counts as not ending

NewReader(bytes, littleEndian, varint) ==
    [ok |-> TRUE, err |-> "", data |-> bytes, off |-> 0,
     le |-> littleEndian, varint |-> varint, steps |-> 0]

R(rd, v) == [rd |-> rd, v |-> v]

Fail(rd, err) == IF rd.ok THEN [rd EXCEPT !.ok = FALSE, !.err = err] ELSE rd

Advance(rd, n) == [rd EXCEPT !.off = @ + n]

UnderflowError ==
    "Error: Ran out of bytes to read, unexpectedly reached the end of the buffer"

\* #byteOffset + byteLength > byteLength of the data, a comparison of
\* doubles: rearranged where the sum would leave the 32-bit integers
PastEnd(off, byteLength, length) ==
    IF off > 0 /\ byteLength > 0 THEN byteLength > length - off
    ELSE IF off < 0 /\ byteLength < 0 THEN FALSE
    ELSE off + byteLength > length

\* #allocate
ReaderAllocate(rd, byteLength) ==
    IF rd.ok /\ PastEnd(rd.off, byteLength, Len(rd.data))
    THEN Fail(rd, UnderflowError) ELSE rd

\* the n bytes at #byteOffset
At(rd, n) == Slice(rd.data, rd.off, rd.off + n)

OffsetError == "RangeError: Offset is outside the bounds of the DataView"

\* allocate(n), read n bytes through the DataView, advance by n; the
\* DataView throws on an offset below 0, which #allocate lets through
Fixed(rd, n) ==
    LET Take(a) ==
            IF ~a.ok THEN R(a, <<>>)
            ELSE IF a.off < 0 THEN R(Fail(a, OffsetError), <<>>)
            ELSE R(Advance(a, n), At(a, n))
    IN Take(ReaderAllocate(rd, n))

readUnsignedByte(rd) ==
    LET Value(f) == IF f.rd.ok THEN R(f.rd, f.v[1]) ELSE R(f.rd, 0)
    IN Value(Fixed(rd, 1))

\* #readByte(true)
readByteValue(rd) ==
    LET Value(f) == IF f.rd.ok THEN R(f.rd, Int8Of(f.v[1])) ELSE R(f.rd, 0)
    IN Value(Fixed(rd, 1))

\* #readByte()
readByte(rd) ==
    LET Wrap(f) == R(f.rd, [js |-> "Byte", v |-> f.v]) IN Wrap(readByteValue(rd))

\* #readVarInt: no limit on the shift; << takes it modulo 32
RECURSIVE readVarIntFrom(_, _, _)
readVarIntFrom(rd, value, shift) ==
    LET More(r, a) ==   \* a: the byte and the value with its bits added
            IF a[1] >= 0 THEN R(r, a[2]) ELSE readVarIntFrom(r, a[2], shift + 7)
        Step(f) ==
            IF ~f.rd.ok THEN R(f.rd, 0)
            ELSE More(f.rd, <<f.v, BitOr(value, Shl(f.v % 128, shift))>>)
    IN Step(readByteValue(rd))

readVarInt(rd) == readVarIntFrom(rd, 0, 0)

VarintTooBigError == "Error: varint is too big"

\* the expression without its last term, result & (1 << 63)
ZigZag32Unsigned(result) ==
    Sar(BitXor(Sar(Shl(result, 63), 63), result), 1)

\* the zig-zag expression of #readVarIntZigZag, in 32-bit arithmetic
ZigZag32(result) ==
    BitXor(Sar(BitXor(Sar(Shl(result, 63), 63), result), 1),
           BitAnd(result, Shl(1, 63)))

RECURSIVE readVarIntZigZagFrom(_, _, _)
readVarIntZigZagFrom(rd, result, shift) ==
    LET More(r, a) ==   \* a: the byte and the result with its bits added
            IF a[1] >= 0 THEN R(r, ZigZag32(a[2]))
            ELSE IF shift + 7 > 63 THEN R(Fail(r, VarintTooBigError), 0)
            ELSE readVarIntZigZagFrom(r, a[2], shift + 7)
        Step(f) ==
            IF ~f.rd.ok THEN R(f.rd, 0)
            ELSE More(f.rd, <<f.v, BitOr(result, Shl(f.v % 128, shift))>>)
    IN Step(readByteValue(ReaderAllocate(rd, 1)))

\* #readVarIntZigZag().value
readVarIntZigZag(rd) == readVarIntZigZagFrom(rd, 0, 0)

readUnsignedShort(rd) ==
    LET Value(f) == IF f.rd.ok THEN R(f.rd, Uint16Of(f.v, rd.le)) ELSE R(f.rd, 0)
    IN IF rd.varint THEN readVarInt(rd) ELSE Value(Fixed(rd, 2))

\* #readShort(true)
readShortValue(rd) ==
    LET Value(f) == IF f.rd.ok THEN R(f.rd, Int16Of(f.v, rd.le)) ELSE R(f.rd, 0)
    IN Value(Fixed(rd, 2))

readShort(rd) ==
    LET Wrap(f) == R(f.rd, [js |-> "Short", v |-> f.v]) IN Wrap(readShortValue(rd))

\* #readUnsignedInt: the value is the four bytes, most significant first
\* (an unsigned varint in the varint dialect)
readUnsignedInt(rd) ==
    LET Value(f) == IF f.rd.ok THEN R(f.rd, Order(f.v, rd.le)) ELSE R(f.rd, 0)
    IN IF rd.varint THEN readVarInt(rd) ELSE Value(Fixed(rd, 4))

\* #readInt(true)
readIntValue(rd) ==
    LET Value(f) == IF f.rd.ok THEN R(f.rd, Int32Of(f.v, rd.le)) ELSE R(f.rd, 0)
    IN IF rd.varint THEN readVarIntZigZag(rd) ELSE Value(Fixed(rd, 4))

readInt(rd) ==
    LET Wrap(f) == R(f.rd, [js |-> "Int", v |-> f.v]) IN Wrap(readIntValue(rd))

\* the seven low bits of a byte, least significant first
Low7(byte) == [i \in 1..7 |-> (byte \div Pow2[i]) % 2]

\* (result >> 1n) ^ -(result & 1n) of the bigint whose bits are given, as
\* big-endian two's-complement bytes: eight, or nine when the value does
\* not fit 64 bits
ZigZag64(bits) ==
    LET half(i) == IF i + 1 <= Len(bits) THEN bits[i + 1] ELSE 0
        bit(i) == IF bits[1] = 1 THEN 1 - half(i) ELSE half(i)
        byte(j) == bit((9 - j) * 8 + 1) + 2 * bit((9 - j) * 8 + 2)
                   + 4 * bit((9 - j) * 8 + 3) + 8 * bit((9 - j) * 8 + 4)
                   + 16 * bit((9 - j) * 8 + 5) + 32 * bit((9 - j) * 8 + 6)
                   + 64 * bit((9 - j) * 8 + 7) + 128 * bit((9 - j) * 8 + 8)
        Trim(nine) ==
            IF (nine[1] = 0 /\ nine[2] < 128) \/ (nine[1] = 255 /\ nine[2] >= 128)
            THEN Tail(nine) ELSE nine
    IN Trim([j \in 1..9 |-> byte(j)])

RECURSIVE readVarLongZigZagFrom(_, _, _)
readVarLongZigZagFrom(rd, result, shift) ==
    LET More(f, result2) ==
            IF f.v >= 0 THEN R(f.rd, ZigZag64(result2))
            ELSE IF shift + 7 > 63 THEN R(Fail(f.rd, VarintTooBigError), <<>>)
            ELSE readVarLongZigZagFrom(f.rd, result2, shift + 7)
        Step(f) ==
            IF ~f.rd.ok THEN R(f.rd, <<>>) ELSE More(f, result \o Low7(f.v % 128))
    IN Step(readByteValue(ReaderAllocate(rd, 1)))

\* #readVarLongZigZag().value
readVarLongZigZag(rd) == readVarLongZigZagFrom(rd, <<>>, 0)

\* #readLong: the bigint as big-endian two's-complement bytes
readLongValue(rd) ==
    LET Value(f) == IF f.rd.ok THEN R(f.rd, Order(f.v, rd.le)) ELSE R(f.rd, <<>>)
    IN IF rd.varint THEN readVarLongZigZag(rd) ELSE Value(Fixed(rd, 8))

readLong(rd) ==
    LET Wrap(f) == R(f.rd, [js |-> "bigint", v |-> f.v]) IN Wrap(readLongValue(rd))

\* #readFloat: the number as its IEEE binary32 bytes, sign byte first
readFloat(rd) ==
    LET Wrap(f) == R(f.rd, [js |-> "Float", v |-> Order(f.v, rd.le)])
    IN Wrap(Fixed(rd, 4))

\* #readDouble: the number as its IEEE binary64 bytes, sign byte first
readDouble(rd) ==
    LET Wrap(f) == R(f.rd, [js |-> "number", v |-> Order(f.v, rd.le)])
    IN Wrap(Fixed(rd, 8))

\* data.subarray(begin, begin + length): an index below 0 counts from the
\* end, both indices are clamped to the buffer
Subarray(bytes, begin, length) ==
    LET Clamp(i) == IF i < 0 THEN Max(Len(bytes) + i, 0) ELSE Min(i, Len(bytes))
    IN Slice(bytes, Clamp(begin), Max(Clamp(begin), Clamp(begin + length)))

\* new Int8Array(bytes)
SignedBytes(b) == [i \in 1..Len(b) |-> Int8Of(b[i])]

readByteArray(rd) ==
    LET Take(a, length) ==
            IF ~a.ok THEN R(a, NoValue)
            ELSE R(Advance(a, length),
                   [js |-> "Int8Array", v |-> SignedBytes(Subarray(a.data, a.off, length))])
        Allocate(n) == Take(ReaderAllocate(n.rd, n.v), n.v)
    IN Allocate(readIntValue(rd))

readString(rd) ==
    LET Take(a, length) ==
            IF ~a.ok THEN R(a, NoValue)
            ELSE R(Advance(a, length),
                   Str(MUtf8Decode(Subarray(a.data, a.off, length))))
        Allocate(n) == Take(ReaderAllocate(n.rd, n.v), n.v)
    IN Allocate(readUnsignedShort(rd))

InvalidLengthError == "RangeError: Invalid typed array length"

\* for (const i in value) value[i] = read(): the elements read so far
RECURSIVE readElements(_, _, _, _)
readElements(rd, long, length, sofar) ==
    LET Store(f) ==
            readElements(f.rd, long, length, IF f.rd.ok THEN Append(sofar, f.v) ELSE sofar)
    IN IF ~rd.ok \/ Len(sofar) >= length THEN R(rd, sofar)
       ELSE Store(IF long THEN readLongValue(rd) ELSE readIntValue(rd))

readIntArray(rd) ==
    LET Wrap(f) == R(f.rd, IF f.rd.ok THEN [js |-> "Int32Array", v |-> f.v] ELSE NoValue)
        Sized(n) ==
            IF ~n.rd.ok THEN R(n.rd, NoValue)
            ELSE IF n.v < 0 THEN R(Fail(n.rd, InvalidLengthError), NoValue)
            ELSE Wrap(readElements(n.rd, FALSE, n.v, <<>>))
    IN Sized(readIntValue(rd))

readLongArray(rd) ==
    LET Wrap(f) ==
            R(f.rd, IF f.rd.ok
                    THEN [js |-> "BigInt64Array",
                          v |-> [i \in 1..Len(f.v) |-> AsInt64(f.v[i])]]
                    ELSE NoValue)
        Sized(n) ==
            IF ~n.rd.ok THEN R(n.rd, NoValue)
            ELSE IF n.v < 0 THEN R(Fail(n.rd, InvalidLengthError), NoValue)
            ELSE Wrap(readElements(n.rd, TRUE, n.v, <<>>))
    IN Sized(readIntValue(rd))

UnsupportedTagError == "Error: Encountered unsupported tag type"
UnexpectedEndError == "Error: Encountered unexpected End tag"
NotEndingError == "the read does not end"

\* #readTagType without its isTagType test
readTagTypeUnchecked(rd) == readUnsignedByte(rd)

readTagType(rd) ==
    LET Check(f) ==
            IF f.rd.ok /\ ~isTagType(f.v) THEN R(Fail(f.rd, UnsupportedTagError), f.v) ELSE f
    IN Check(readUnsignedByte(rd))

RECURSIVE readTag(_, _)
RECURSIVE readListEntries(_, _, _, _)
RECURSIVE readCompoundEntries(_, _)

readList(rd) ==
    LET Wrap(f) == R(f.rd, IF f.rd.ok THEN [js |-> "Array", v |-> f.v] ELSE NoValue)
        Entries(type, n) ==
            IF ~n.rd.ok THEN R(n.rd, NoValue)
            ELSE Wrap(readListEntries(n.rd, type, n.v, <<>>))
        Length(t) ==
            Entries(t.v, IF rd.varint THEN readVarIntZigZag(t.rd) ELSE readIntValue(t.rd))
    IN Length(readTagType(rd))

readListEntries(rd, type, length, value) ==
    LET Store(f) ==
            readListEntries(f.rd, type, length, IF f.rd.ok THEN Append(value, f.v) ELSE value)
    IN IF ~rd.ok \/ Len(value) >= length THEN R(rd, value)
       ELSE Store(readTag(rd, type))

readCompound(rd) ==
    LET Wrap(f) == R(f.rd, IF f.rd.ok THEN [js |-> "Object", v |-> f.v] ELSE NoValue)
    IN Wrap(readCompoundEntries(rd, <<>>))

readCompoundEntries(rd, value) ==
    LET Store(name, entry) ==
            IF ~entry.rd.ok THEN R(entry.rd, value)
            ELSE readCompoundEntries(entry.rd, ObjSet(value, name, entry.v))
        Named(type, name) ==
            IF ~name.rd.ok THEN R(name.rd, value)
            ELSE Store(Chars(name.v), readTag(name.rd, type))
        Typed(t) ==
            IF ~t.rd.ok THEN R(t.rd, value)
            ELSE IF t.v = TAG.END THEN R(t.rd, value)
            ELSE Named(t.v, readString(t.rd))
    IN Typed(readTagType(rd))

\* #readTag, and the count of payloads read
readTag(rd, type) ==
    LET Payload(r) ==
            CASE type = TAG.END -> R(Fail(r, UnexpectedEndError), NoValue)
              [] type = TAG.BYTE -> readByte(r)
              [] type = TAG.SHORT -> readShort(r)
              [] type = TAG.INT -> readInt(r)
              [] type = TAG.LONG -> readLong(r)
              [] type = TAG.FLOAT -> readFloat(r)
              [] type = TAG.DOUBLE -> readDouble(r)
              [] type = TAG.BYTE_ARRAY -> readByteArray(r)
              [] type = TAG.STRING -> readString(r)
              [] type = TAG.LIST -> readList(r)
              [] type = TAG.COMPOUND -> readCompound(r)
              [] type = TAG.INT_ARRAY -> readIntArray(r)
              [] type = TAG.LONG_ARRAY -> readLongArray(r)
              [] OTHER -> R(Fail(r, UnsupportedTagError), NoValue)
    IN IF ~rd.ok THEN R(rd, NoValue)
       ELSE IF rd.steps >= Len(rd.data) + MaxSteps THEN R(Fail(rd, NotEndingError), NoValue)
       ELSE Payload([rd EXCEPT !.steps = @ + 1])

---------------------------------------------------------------------------
(* The compression service (compression.ts over CompressionStream) is      *)
(* external.  It is modelled as a framing: the scheme's magic bytes, then  *)
(* the payload; decompress fails on a buffer that lacks the magic.         *)

Magic(format) ==
    CASE format = "gzip" -> <<31, 139>>
      [] format = "deflate" -> <<120, 156>>
      [] format = "deflate-raw" -> <<1>>

Compressions == {"gzip", "deflate", "deflate-raw"}

compress(bytes, format) == Magic(format) \o bytes

HasPrefix(bytes, prefix) ==
    Len(bytes) >= Len(prefix) /\ SubSeq(bytes, 1, Len(prefix)) = prefix

CompressionError == "TypeError: The compressed data was not valid"

decompress(bytes, format) ==
    IF HasPrefix(bytes, Magic(format))
    THEN Bytes(SubSeq(bytes, Len(Magic(format)) + 1, Len(bytes)))
    ELSE BytesError(CompressionError)

---------------------------------------------------------------------------
(* write (src/write.ts)                                                    *)

\* write(data, { name, endian, compression, bedrockLevel })
write(dataIn, o) ==
    LET Framed(result, bedrockLevel) ==
            IF bedrockLevel.k = "Int"
            THEN Int32Bytes(bedrockLevel.v, TRUE) \o Int32Bytes(Len(result.bytes), TRUE)
                     \o result.bytes
            ELSE result.bytes
        Compressed(result, framed, compression) ==
            IF ~result.ok THEN result
            ELSE IF compression \in Compressions THEN Bytes(compress(framed, compression))
            ELSE Bytes(framed)
        Written(result, compression, bedrockLevel) ==
            Compressed(result, Framed(result, bedrockLevel), compression)
        Checked(root, name, endian, compression, bedrockLevel) ==
            IF ~IsObject(root) THEN BytesError("TypeError: First parameter must be an object")
            ELSE IF name.k \notin {"undefined", "null", "string"}
            THEN BytesError("TypeError: Name option must be a string or null")
            ELSE IF endian \notin {"undefined", "big", "little"}
            THEN BytesError("TypeError: Endian option must be a valid endian type")
            ELSE IF compression \notin {"undefined", "null"} \union Compressions
            THEN BytesError("TypeError: Compression option must be a valid compression type")
            ELSE IF bedrockLevel.k \notin {"undefined", "null", "Int"}
            THEN BytesError("TypeError: Bedrock Level option must be an Int32 or null")
            ELSE Written(NBTWriterWrite(root, name, endian), compression, bedrockLevel)
        Field(name) == IF dataIn.js = "NBTData" THEN dataIn.v[name] ELSE Undef
        Name(name) == IF dataIn.js = "NBTData" THEN dataIn.v[name] ELSE "undefined"
    IN Checked(Unwrap(dataIn),
               Inherit(o.name, dataIn, Field("name")),
               InheritName(o.endian, dataIn, Name("endian")),
               InheritName(o.compression, dataIn, Name("compression")),
               Inherit(o.bedrockLevel, dataIn, Field("bedrockLevel")))

---------------------------------------------------------------------------
(* read and NBTReader.readRoot (read.ts)                                   *)

\* The outcome of a read: the envelope returned or the error thrown, the
\* cause the error carries, and the dialects readRoot was called with.
ReadOk(value, tried) ==
    [ok |-> TRUE, err |-> "", value |-> value, cause |-> NoValue, tried |-> tried]
ReadError(err, cause, tried) ==
    [ok |-> FALSE, err |-> err, value |-> NoValue, cause |-> cause, tried |-> tried]

\* a value used as a condition
Truthy(option) ==
    CASE option.k = "boolean" -> option.v
      [] option.k = "string" -> option.v # <<>>
      [] option.k = "number" -> option.v # 0
      [] OTHER -> FALSE

\* hasGzipHeader: getUint16(0, false) === 0x1F8B
hasGzipHeader(bytes) == bytes[1] = 31 /\ bytes[2] = 139

\* hasZlibHeader: getUint8(0) === 0x78
hasZlibHeader(bytes) == bytes[1] = 120

\* hasBedrockLevelHeader: the unsigned 32-bit at offset 4, little-endian,
\* equals byteLength - 8
hasBedrockLevelHeader(bytes, endian) ==
    /\ endian = "little"
    /\ Len(bytes) >= 8
    /\ bytes[8] < 128
    /\ Int32Of(Slice(bytes, 4, 8), TRUE) = Len(bytes) - 8

RootTypeError ==
    "Error: Expected an opening List or Compound tag at the start of the buffer"
TrailingBytesError ==
    "NBTError: Encountered unexpected End tag, unread bytes remaining"

Dialect(rootName, endian, compression, bedrockLevel) ==
    [rootName |-> rootName, endian |-> endian, compression |-> compression,
     bedrockLevel |-> bedrockLevel]

\* the root name is read only when the option is truthy: true or a string
\* that is not empty
readsRootNameWhenTruthy(rootName) == Truthy(rootName)

\* typeof rootName === "string" || rootName
readsRootName(rootName) == rootName.k = "string" \/ Truthy(rootName)

\* unread bytes are reported only from the second one on
hasUnreadBytesBeyondOne(rd, strict) == strict /\ Len(rd.data) > rd.off + 1

\* strict && this.#data.byteLength > this.#byteOffset
hasUnreadBytes(rd, strict) == strict /\ Len(rd.data) > rd.off

\* the dialect readRoot is called with
Tried(o) == <<Dialect(o.rootName, o.endian, o.compression, o.bedrockLevel)>>

\* readRoot from the strict check on; root is the outcome of #readTag
readRootEnd(o, root, rootNameV) ==
    IF ~root.rd.ok THEN ReadError(root.rd.err, NoValue, Tried(o))
    ELSE IF hasUnreadBytes(root.rd, o.strict.v)
    THEN ReadError(TrailingBytesError,
                   NBTData(root.v, rootNameV, o.endian, "null", Null), Tried(o))
    ELSE ReadOk(NBTData(root.v, rootNameV, o.endian, o.compression, o.bedrockLevel),
                Tried(o))

\* readRoot from the root payload on; name is the outcome of the read of
\* the root name
readRootTag(o, type, name) ==
    readRootEnd(o, readTag(name.rd, type),
                IF readsRootName(o.rootName) /\ name.rd.ok
                THEN SomeString(Chars(name.v)) ELSE Null)

\* readRoot from the root name on; type is the outcome of #readTagType
readRootName(o, type) ==
    IF ~type.rd.ok THEN ReadError(type.rd.err, NoValue, Tried(o))
    ELSE IF type.v \notin {TAG.LIST, TAG.COMPOUND}
    THEN ReadError(RootTypeError, NoValue, Tried(o))
    ELSE readRootTag(o, type.v, IF readsRootName(o.rootName) THEN readString(type.rd)
                                ELSE R(type.rd, NoValue))

\* readRoot from the level header on
readRootHeader(o, rd) ==
    readRootName(o, readTagType(IF Truthy(o.bedrockLevel)
                                THEN readUnsignedInt(readUnsignedInt(rd).rd).rd ELSE rd))

\* NBTReader.readRoot({ rootName, endian, compression, bedrockLevel, strict })
\* on a reader built over the buffer
readRoot(reader, rootName, endian, compression, bedrockLevel, strict) ==
    LET o == [rootName |-> rootName, endian |-> endian, compression |-> compression,
              bedrockLevel |-> bedrockLevel, strict |-> SomeBool(strict)]
    IN IF compression # "null" /\ ~decompress(reader.data, compression).ok
       THEN ReadError(decompress(reader.data, compression).err, NoValue, Tried(o))
       ELSE readRootHeader(o, IF compression = "null" THEN reader
                              ELSE [reader EXCEPT
                                        !.data = decompress(reader.data, compression).bytes])

\* the mutation of TryElse that makes the first attempt once more when both
\* have thrown
TryElseAgain(a, b) ==
    IF a.ok THEN a
    ELSE IF b.ok THEN [b EXCEPT !.tried = a.tried \o b.tried]
    ELSE [a EXCEPT !.tried = a.tried \o b.tried \o a.tried]

\* the mutation of TryElse that prefers the second attempt when it succeeds
TryElseSecond(a, b) ==
    IF b.ok THEN [b EXCEPT !.tried = a.tried \o b.tried]
    ELSE [a EXCEPT !.tried = a.tried \o b.tried]

\* try a; on a throw try b; on a second throw rethrow the first error
TryElse(a, b) ==
    IF a.ok THEN a
    ELSE IF b.ok THEN [b EXCEPT !.tried = a.tried \o b.tried]
    ELSE [a EXCEPT !.tried = a.tried \o b.tried]

Endians == {"big", "little", "little-varint"}

ReadOptions(rootName, endian, compression, bedrockLevel, strict) ==
    [rootName |-> rootName, endian |-> endian, compression |-> compression,
     bedrockLevel |-> bedrockLevel, strict |-> strict]

NoOptions == ReadOptions(Undef, "undefined", "undefined", Undef, Undef)

RECURSIVE read(_, _)

\* read from the point where the compression is known (the label
\* `compression:` has been left)
readWithCompression(bytes, options, compression) ==
    IF options.endian = "undefined"
    THEN TryElse(read(bytes, [options EXCEPT !.endian = "big"]),
                 TryElse(read(bytes, [options EXCEPT !.endian = "little"]),
                         read(bytes, [options EXCEPT !.endian = "little-varint"])))
    ELSE IF options.rootName.k = "undefined"
    THEN TryElse(read(bytes, [options EXCEPT !.rootName = SomeBool(TRUE)]),
                 read(bytes, [options EXCEPT !.rootName = SomeBool(FALSE)]))
    ELSE IF compression # "null" /\ ~decompress(bytes, compression).ok
    THEN ReadError(decompress(bytes, compression).err, NoValue, <<>>)
    ELSE readRoot(NewReader(bytes, options.endian # "big",
                            options.endian = "little-varint"),
                  options.rootName, options.endian, compression,
                  IF options.bedrockLevel.k = "undefined"
                  THEN SomeBool(hasBedrockLevelHeader(bytes, options.endian))
                  ELSE options.bedrockLevel,
                  IF options.strict.k = "undefined" THEN TRUE ELSE options.strict.v)

\* The compression read goes on with: the option when it is given, else
\* the scheme the header of the buffer shows; "undefined" when the header
\* shows none, "RangeError" when the buffer is too short for a header.
headerCompression(bytes, options) ==
    IF options.compression # "undefined" THEN options.compression
    ELSE IF Len(bytes) < 2 THEN "RangeError"
    ELSE IF hasGzipHeader(bytes) THEN "gzip"
    ELSE IF hasZlibHeader(bytes) THEN "deflate"
    ELSE "undefined"

\* read(data, options)
read(bytes, options) ==
    IF options.rootName.k \notin {"undefined", "boolean", "string", "null"}
    THEN ReadError("TypeError: Root Name option must be a boolean, string, or null",
                   NoValue, <<>>)
    ELSE IF options.endian \notin {"undefined"} \union Endians
    THEN ReadError("TypeError: Endian option must be a valid endian type", NoValue, <<>>)
    ELSE IF options.compression \notin {"undefined", "null"} \union Compressions
    THEN ReadError("TypeError: Compression option must be a valid compression type",
                   NoValue, <<>>)
    ELSE IF options.bedrockLevel.k \notin {"undefined", "boolean", "number", "null"}
    THEN ReadError("TypeError: Bedrock Level option must be a boolean, number, or null",
                   NoValue, <<>>)
    ELSE IF options.strict.k \notin {"undefined", "boolean"}
    THEN ReadError("TypeError: Strict option must be a boolean", NoValue, <<>>)
    ELSE IF headerCompression(bytes, options) = "RangeError"
    THEN ReadError("RangeError: Offset is outside the bounds of the DataView",
                   NoValue, <<>>)
    ELSE IF headerCompression(bytes, options) = "undefined"
    THEN TryElse(read(bytes, [options EXCEPT !.compression = "null"]),
                 read(bytes, [options EXCEPT !.compression = "deflate-raw"]))
    ELSE readWithCompression(bytes, options, headerCompression(bytes, options))

---------------------------------------------------------------------------
(* Relations between values.  Two JS values are never compared with = when *)
(* their classes may differ: the class is compared first.                  *)

\* The same tag: the same tag id and the same value, and for a container
\* the same keys in the same order and the same tag at every position.
RECURSIVE SameTag(_, _)
SameTag(a, b) ==
    LET type == getTagType(a)
    IN /\ type = getTagType(b)
       /\ CASE type = TAG.BYTE -> NumberOf(a) = NumberOf(b)
            [] type = TAG.LIST ->
                 /\ Len(a.v) = Len(b.v)
                 /\ \A i \in 1..Len(a.v) : SameTag(a.v[i], b.v[i])
            [] type = TAG.COMPOUND ->
                 /\ Len(a.v) = Len(b.v)
                 /\ \A i \in 1..Len(a.v) :
                        a.v[i].k = b.v[i].k /\ SameTag(a.v[i].t, b.v[i].t)
            [] type = TAG.STRING -> Chars(a) = Chars(b)
            [] type = NoType -> a.js = b.js
            [] OTHER -> a.v = b.v

SameOption(a, b) == a.k = b.k /\ a.v = b.v

\* The same tree under the same four format fields.
SameEnvelope(a, b) ==
    /\ a.js = "NBTData" /\ b.js = "NBTData"
    /\ SameTag(a.v.data, b.v.data)
    /\ SameOption(a.v.name, b.v.name)
    /\ a.v.endian = b.v.endian
    /\ a.v.compression = b.v.compression
    /\ SameOption(a.v.bedrockLevel, b.v.bedrockLevel)

\* Every value of the tree is a tag.
RECURSIVE OnlyTags(_)
OnlyTags(value) ==
    CASE value.js = "Array" -> \A i \in 1..Len(value.v) : OnlyTags(value.v[i])
      [] value.js = "Object" -> \A i \in 1..Len(value.v) : OnlyTags(value.v[i].t)
      [] OTHER -> getTagType(value) # NoType

\* Some LIST of the tree, once the entries that are not tags are discarded,
\* holds two entries of different tag ids.
RECURSIVE HasHeterogeneousList(_)
HasHeterogeneousList(value) ==
    CASE value.js = "Array" ->
           LET items == FilterTags(value.v)
           IN \/ \E i, j \in 1..Len(items) : getTagType(items[i]) # getTagType(items[j])
              \/ \E i \in 1..Len(items) : HasHeterogeneousList(items[i])
      [] value.js = "Object" ->
           \E i \in 1..Len(value.v) : HasHeterogeneousList(value.v[i].t)
      [] OTHER -> FALSE

\* The nesting depth of a value: 0 for a leaf, 1 for a flat container.
RECURSIVE Depth(_)
Depth(value) ==
    IF value.js \notin {"Array", "Object"} THEN 0
    ELSE LET items == IF value.js = "Array" THEN value.v
                      ELSE [i \in 1..Len(value.v) |-> value.v[i].t]
             below == {Depth(items[i]) : i \in 1..Len(items)}
         IN 1 + (IF below = {} THEN 0 ELSE CHOOSE d \in below : \A e \in below : e <= d)

\* The tree conforms to the data model: tags only, homogeneous lists.
Conforms(value) == OnlyTags(value) /\ ~HasHeterogeneousList(value)

---------------------------------------------------------------------------
(* The values a caller hands to the codecs.                                *)

\* Leaves: one value or more of every tag id, and the two booleans.
Leaves ==
    << Bool(TRUE), Bool(FALSE), Byte(Num(-1)), Short(Num(300)), Int32(Num(70000)),
       BigInt(<<0, 0, 0, 0, 0, 0, 0, 5>>), Float(<<63, 128, 0, 0>>),
       Double(<<191, 240, 0, 0, 0, 0, 0, 0>>), Str(<<97>>), Str(<<>>),
       Str(<<233, 34>>), Int8Array(<<1, -1>>), Int32Array(<<-2>>),
       BigInt64Array(<< <<255, 255, 255, 255, 255, 255, 255, 255>> >>),
       Arr(<<>>), Obj(<<>>) >>

\* a string of 65536 characters: its UTF-8 length does not fit 16 bits
LongString == StrRepeat(<<97>>, 65536)

Entry(k, t) == [k |-> k, t |-> t]

TreeShapes == 1..8

\* The tree of a shape over two leaves.
TreeAt(shape, x, y) ==
    CASE shape = 1 -> Obj(<<Entry(<<97>>, x)>>)
      [] shape = 2 -> Obj(<<Entry(<<98>>, x), Entry(<<97>>, y)>>)
      [] shape = 3 -> Obj(<<Entry(<<76>>, Arr(<<x, y>>))>>)
      [] shape = 4 ->
           Obj(<<Entry(<<99>>, Obj(<<Entry(<<76>>, Arr(<<Arr(<<x>>), Arr(<<y>>)>>))>>))>>)
      [] shape = 5 ->
           Obj(<<Entry(<<99>>, Arr(<<Obj(<<Entry(<<120>>, Arr(<<x, y>>))>>)>>))>>)
      [] shape = 6 -> Obj(<<Entry(<<76>>, Arr(<<x, Undefined, y>>))>>)
      [] shape = 7 -> Obj(ObjSet(ObjSet(<<>>, <<49>>, x), <<48>>, y))
      [] shape = 8 -> Obj(<<Entry(<<115>>, LongString)>>)

WriteOptions(name, endian, compression, bedrockLevel) ==
    [name |-> name, endian |-> endian, compression |-> compression,
     bedrockLevel |-> bedrockLevel]

\* The dialects a caller writes with, endian big or little.
WriteDialects ==
    << WriteOptions(Undef, "undefined", "undefined", Undef),
       WriteOptions(SomeString(<<114>>), "little", "null", Null),
       WriteOptions(Null, "big", "null", Null),
       WriteOptions(SomeString(<<>>), "little", "gzip", Null),
       WriteOptions(Null, "little", "undefined", SomeInt(10)),
       WriteOptions(SomeString(<<114, 233>>), "big", "deflate-raw", SomeInt(1)) >>

\* The read options that pin the dialect a buffer was written with.
ReadOptionsOf(o) ==
    ReadOptions(SomeBool(o.name.k # "null"),
                IF o.endian = "undefined" THEN "big" ELSE o.endian,
                IF o.compression = "undefined" THEN "null" ELSE o.compression,
                SomeBool(o.bedrockLevel.k = "Int"),
                Undef)

---------------------------------------------------------------------------
(* Encode, decode, encode: the caller writes a tree, reads the bytes back  *)
(* under the same dialect, and writes the tree that was read.              *)

TreeInit ==
    /\ pc = "start"
    /\ \E shape \in TreeShapes : \E i, j \in 1..Len(Leaves) :
       \E d \in 1..Len(WriteDialects) :
           /\ j = i \/ j <= 3
           /\ shape = 8 => (i = 1 /\ j = 1 /\ d <= 2)
           /\ tree = TreeAt(shape, Leaves[i], Leaves[j])
           /\ opts = WriteDialects[d]
    /\ data = <<>>
    /\ text = <<>>
    /\ res = NoValue
    /\ res2 = NoValue
    /\ res3 = NoValue

\* res = write(tree, opts)
TreeWrite ==
    /\ pc = "start"
    /\ res' = write(tree, opts)
    /\ pc' = "written"
    /\ UNCHANGED <<tree, opts, data, text, res2, res3>>

\* res2 = read(res, opts)
TreeRead ==
    /\ pc = "written"
    /\ res.ok
    /\ res2' = read(res.bytes, ReadOptionsOf(opts))
    /\ pc' = "read"
    /\ UNCHANGED <<tree, opts, data, text, res, res3>>

\* res3 = write(res2.data, opts)
TreeRewrite ==
    /\ pc = "read"
    /\ res2.ok
    /\ res3' = write(res2.value.v.data, opts)
    /\ pc' = "rewritten"
    /\ UNCHANGED <<tree, opts, data, text, res, res2>>

TreeNext == TreeWrite \/ TreeRead \/ TreeRewrite

SpecTree == TreeInit /\ [][TreeNext]_vars

---------------------------------------------------------------------------
(* Properties of encode, decode, encode                                    *)

\* C2 (tree round-trip): for a tree that conforms to the data model and a
\* dialect of endian big or little, write succeeds, read of the bytes under
\* the same dialect succeeds, and the tree read has the same keys in the
\* same order and the same tag id and value at every position.
TreeRoundTrip ==
    /\ (pc = "written" /\ Conforms(tree)) => res.ok
    /\ (pc = "read" /\ Conforms(tree)) =>
           (res2.ok /\ SameTag(res2.value.v.data, tree))

\* C7 (the writer rejects a heterogeneous list): when some LIST of the
\* tree, at any depth, holds two tags of different ids once the entries
\* that are not tags are discarded, write throws the type error and the
\* caller gets no bytes.
WriterRejectsHeterogeneousList ==
    (pc # "start" /\ HasHeterogeneousList(tree)) =>
        (~res.ok /\ res.err = HeterogeneousListError /\ res.bytes = <<>>)

\* A heterogeneous LIST nested three containers below the root has been
\* rejected.
HeterogeneousListRejected ==
    /\ pc = "written"
    /\ HasHeterogeneousList(tree)
    /\ Depth(tree) >= 4
    /\ ~res.ok

\* A heterogeneous LIST whose entries that are not tags were discarded
\* first has been rejected.
FilteredListRejected ==
    /\ pc = "written"
    /\ HasHeterogeneousList(tree)
    /\ ~OnlyTags(tree)
    /\ ~res.ok

\* C10 (stable order): for a tree that write accepts, the bytes can be
\* read back under the same dialect, and writing the tree that was read
\* gives the bytes of the first write.
StableOrder ==
    /\ pc = "read" => res2.ok
    /\ pc = "rewritten" => (res3.ok /\ res3.bytes = res.bytes)

---------------------------------------------------------------------------
(* Buffers a caller hands to read.                                         *)

MaxBufLen == 5

\* the bytes arbitrary buffers are made of: END, BYTE, LIST, COMPOUND
Alphabet == {0, 1, 9, 10}

\* every buffer over the alphabet, up to MaxBufLen bytes
Buffers == UNION {[1..n -> Alphabet] : n \in 0..MaxBufLen}

\* Fully pinned dialects of uncompressed buffers.
PinnedDialects ==
    << ReadOptions(SomeBool(TRUE), "big", "null", Null, Undef),
       ReadOptions(SomeBool(FALSE), "big", "null", Null, Undef),
       ReadOptions(SomeBool(TRUE), "little", "null", Null, Undef),
       ReadOptions(SomeBool(FALSE), "little", "null", Null, Undef),
       ReadOptions(SomeString(<<>>), "little", "null", SomeBool(TRUE), Undef),
       ReadOptions(Null, "little-varint", "null", SomeNumber(0), Undef),
       ReadOptions(SomeBool(TRUE), "little-varint", "null", SomeBool(FALSE), Undef) >>

Wire(bytes, dialect) == [bytes |-> bytes, dialect |-> dialect]

\* Well-formed uncompressed buffers, each with the dialect it is written
\* in: a COMPOUND root, unique keys, homogeneous lists.
WellFormedBuffers ==
    << \* big, root name "": {}
       Wire(<<10, 0, 0, 0>>, 1),
       \* big, root name "r": {a: 5b, b: 300s}
       Wire(<<10, 0, 1, 114, 1, 0, 1, 97, 5, 2, 0, 1, 98, 1, 44, 0>>, 1),
       \* big, no root name: {"1": 5b, "0": 6b}
       Wire(<<10, 1, 0, 1, 49, 5, 1, 0, 1, 48, 6, 0>>, 2),
       \* little, root name "": {L: [1, 2]}
       Wire(<<10, 0, 0, 9, 1, 0, 76, 3, 2, 0, 0, 0, 1, 0, 0, 0, 2, 0, 0, 0, 0>>, 3),
       \* big, no root name: {c: {s: "\u00E9"}}
       Wire(<<10, 10, 0, 1, 99, 8, 0, 1, 115, 0, 2, 195, 169, 0, 0>>, 2),
       \* little, no root name: {x: [B; 1, -1], L: []}
       Wire(<<10, 7, 1, 0, 120, 2, 0, 0, 0, 1, 255,
              9, 1, 0, 76, 0, 0, 0, 0, 0, 0>>, 4) >>

\* Other buffers: a LIST root, an empty list that declares an element
\* type, a Bedrock level header, the varint dialect, compressed buffers.
OtherBuffers ==
    << \* big, root name "": the LIST [5b, 6b]
       Wire(<<9, 0, 0, 1, 0, 0, 0, 2, 5, 6>>, 1),
       \* big, root name "": {L: []} with element type BYTE
       Wire(<<10, 0, 0, 9, 0, 1, 76, 1, 0, 0, 0, 0, 0>>, 1),
       \* little, root name "", level header (version 10, length 4): {}
       Wire(<<10, 0, 0, 0, 4, 0, 0, 0, 10, 0, 0, 0>>, 5),
       \* little-varint, no root name: {i: -1}
       Wire(<<10, 3, 1, 105, 1, 0>>, 6),
       \* little-varint, root name "": {l: [-1, 1]}
       Wire(<<10, 0, 9, 1, 108, 3, 4, 1, 2, 0>>, 7),
       \* gzip over big, root name "": {}
       Wire(<<31, 139, 10, 0, 0, 0>>, 1),
       \* zlib over big, no root name: {}
       Wire(<<120, 156, 10, 0>>, 2),
       \* gzip over bytes that no dialect decodes
       Wire(<<31, 139, 1, 0, 0, 0>>, 1) >>

WireBuffers == WellFormedBuffers \o OtherBuffers

\* The read options an envelope pins: its four format fields.
OptionsOf(envelope) ==
    ReadOptions(envelope.v.name, envelope.v.endian, envelope.v.compression,
                envelope.v.bedrockLevel, Undef)

\* the byte sequences appended to a buffer
Suffixes == {<<0>>, <<10>>, <<0, 0>>, <<10, 0>>}

---------------------------------------------------------------------------
(* Decode: the caller reads a buffer under a pinned dialect, then writes   *)
(* the envelope back or reads the buffer again with bytes appended; or the *)
(* caller reads the buffer with no option and reads it again under the     *)
(* dialect that was detected.                                              *)

BytesInit ==
    /\ pc = "start"
    /\ \/ \E b \in Buffers : \E d \in 0..Len(PinnedDialects) :
              /\ data = b
              /\ opts = IF d = 0 THEN NoOptions ELSE PinnedDialects[d]
       \/ \E b \in Buffers : \E c \in {"null", "deflate-raw"} :
              /\ data = b
              /\ opts = [NoOptions EXCEPT !.compression = c]
       \/ \E i \in 1..Len(WireBuffers) : \E pinned \in BOOLEAN :
              /\ data = WireBuffers[i].bytes
              /\ opts = IF pinned THEN PinnedDialects[WireBuffers[i].dialect]
                        ELSE NoOptions
    /\ tree = NoValue
    /\ text = <<>>
    /\ res = NoValue
    /\ res2 = NoValue
    /\ res3 = NoValue

\* res = read(data, d), every field of d given
BytesRead ==
    /\ pc = "start"
    /\ opts.endian # "undefined"
    /\ res' = read(data, opts)
    /\ pc' = "read"
    /\ UNCHANGED <<tree, opts, data, text, res2, res3>>

\* res2 = write(res): the envelope that read returned is written
BytesWriteBack ==
    /\ pc = "read"
    /\ res.ok
    /\ res2' = write(res.value, WriteOptions(Undef, "undefined", "undefined", Undef))
    /\ pc' = "rewritten"
    /\ UNCHANGED <<tree, opts, data, text, res, res3>>

\* res2 = read(data ++ s, d) in strict mode, res3 = read(data ++ s, d) with
\* strict: false
BytesReadTrailing ==
    /\ pc = "read"
    /\ res.ok
    /\ \E s \in Suffixes : \E strict \in BOOLEAN :
           /\ text' = s
           /\ res2' = read(data \o s, [opts EXCEPT !.strict =
                                           IF strict THEN SomeBool(TRUE) ELSE Undef])
           /\ res3' = read(data \o s, [opts EXCEPT !.strict = SomeBool(FALSE)])
    /\ pc' = "trailing"
    /\ UNCHANGED <<tree, opts, data, res>>

\* res = read(data)
BytesProbe ==
    /\ pc = "start"
    /\ opts.endian = "undefined"
    /\ res' = read(data, opts)
    /\ pc' = "probed"
    /\ UNCHANGED <<tree, opts, data, text, res2, res3>>

\* res2 = read(data, res): the envelope that read returned is the options
BytesReadPinned ==
    /\ pc = "probed"
    /\ res.ok
    /\ res2' = read(data, OptionsOf(res.value))
    /\ pc' = "pinned"
    /\ UNCHANGED <<tree, opts, data, text, res, res3>>

BytesNext ==
    \/ BytesRead
    \/ BytesWriteBack
    \/ BytesReadTrailing
    \/ BytesProbe
    \/ BytesReadPinned

SpecBytes == BytesInit /\ [][BytesNext]_vars

---------------------------------------------------------------------------
(* Properties of decode                                                    *)

\* The buffer is one of the well-formed buffers and the options pin the
\* dialect it is written in.
WellFormedInput ==
    \E i \in 1..Len(WellFormedBuffers) :
        /\ data = WellFormedBuffers[i].bytes
        /\ opts.endian = PinnedDialects[WellFormedBuffers[i].dialect].endian
        /\ opts.rootName.k = "boolean"
        /\ opts.rootName.v = PinnedDialects[WellFormedBuffers[i].dialect].rootName.v

\* C1 (byte round-trip): a well-formed uncompressed buffer is read under
\* its pinned dialect, endian big or little, root name present or absent;
\* writing the envelope that read returned succeeds and gives the bytes of
\* the buffer, the same length and the same byte at every offset.
ByteRoundTrip ==
    /\ (pc = "read" /\ WellFormedInput) => res.ok
    /\ (pc = "rewritten" /\ WellFormedInput) => (res2.ok /\ res2.bytes = data)

\* C5 (strict overrun detection): when a buffer decodes under a pinned
\* dialect and a non-empty byte sequence is appended to it, the read in
\* strict mode (given or by default) throws the trailing-bytes error, and
\* the read with strict: false returns the tree and the envelope of the
\* read of the buffer alone.
StrictOverrunDetection ==
    pc = "trailing" =>
        /\ ~res2.ok
        /\ res2.err = TrailingBytesError
        /\ res3.ok
        /\ SameEnvelope(res3.value, res.value)

\* One byte was appended to a buffer that holds a tree with an entry: the
\* strict read has thrown and the lenient read has returned.
OneTrailingByteDetected ==
    /\ pc = "trailing"
    /\ Len(text) = 1
    /\ ~res2.ok
    /\ res3.ok
    /\ res.value.v.data.js = "Object"
    /\ Len(res.value.v.data.v) > 0

\* C6 (probe idempotence): when read with no option succeeds, read with the
\* four fields of the returned envelope as options succeeds too and returns
\* the same tree and the same envelope, the empty root name included.
ProbeIdempotence ==
    pc = "pinned" => (res2.ok /\ SameEnvelope(res2.value, res.value))

\* The probe detected the empty string as root name, and the buffer has
\* been read again under the detected dialect.
EmptyRootNamePinned ==
    /\ pc = "pinned"
    /\ res.value.v.name.k = "string"
    /\ res.value.v.name.v = <<>>
    /\ res2.ok

---------------------------------------------------------------------------
(* Widths: the caller builds a wrapper from an integer, writes it as the   *)
(* one entry of a compound, and reads the bytes back.                      *)

\* the low words of the integers a wrapper is built from
LowWords ==
    { 0, 1, -1, 5, 127, 128, 129, 255, 256, 511, -127, -128, -129, -256, -257,
      32767, 32768, 32769, 65535, 65536, 65537, -32768, -32769, -65536, -65537,
      70000, 16777215, 16777216, -16777217, 2147483647, -2147483647,
      (-2147483647) - 1 }

\* the multiples of 2^32 added to them
HighWords == {-2, -1, 0, 1, 1024}

Wrappers == {"Byte", "Short", "Int"}

\* new Byte(x), new Short(x), new Int(x)
newWrapper(kind, x) ==
    CASE kind = "Byte" -> Byte(x)
      [] kind = "Short" -> Short(x)
      [] kind = "Int" -> Int32(x)

PrimInit ==
    /\ pc = "start"
    /\ \E kind \in Wrappers : \E endian \in {"big", "little"} :
       \E hi \in HighWords : \E lo \in LowWords :
           opts = [kind |-> kind, endian |-> endian, x |-> [hi |-> hi, lo |-> lo]]
    /\ tree = NoValue
    /\ data = <<>>
    /\ text = <<>>
    /\ res = NoValue
    /\ res2 = NoValue
    /\ res3 = NoValue

\* tree = new Byte(x), new Short(x) or new Int(x)
PrimConstruct ==
    /\ pc = "start"
    /\ tree' = newWrapper(opts.kind, opts.x)
    /\ pc' = "built"
    /\ UNCHANGED <<opts, data, text, res, res2, res3>>

\* res = write({ v: tree }, { name: null, endian })
PrimWrite ==
    /\ pc = "built"
    /\ res' = write(Obj(<<Entry(<<118>>, tree)>>),
                    WriteOptions(Null, opts.endian, "null", Null))
    /\ pc' = "written"
    /\ UNCHANGED <<tree, opts, data, text, res2, res3>>

\* res2 = read(res, { rootName: false, endian, compression: null })
PrimRead ==
    /\ pc = "written"
    /\ res.ok
    /\ res2' = read(res.bytes,
                    ReadOptions(SomeBool(FALSE), opts.endian, "null", Null, Undef))
    /\ pc' = "read"
    /\ UNCHANGED <<tree, opts, data, text, res, res3>>

PrimNext == PrimConstruct \/ PrimWrite \/ PrimRead

SpecPrim == PrimInit /\ [][PrimNext]_vars

---------------------------------------------------------------------------
(* Properties of widths                                                    *)

\* the payload bytes of the one entry: after the root tag id, the entry's
\* tag id, its name length and its name, and before the END of the root
PayloadOf(bytes) == SubSeq(bytes, 6, Len(bytes) - 1)

WidthOf(kind) == CASE kind = "Byte" -> 1 [] kind = "Short" -> 2 [] kind = "Int" -> 4

\* (x << 24) >> 24, (x << 16) >> 16, x | 0 on the bits of the low word
Narrowed(kind, x) ==
    CASE kind = "Byte" -> Sar(Shl(x.lo, 24), 24)
      [] kind = "Short" -> Sar(Shl(x.lo, 16), 16)
      [] kind = "Int" -> BitOr(x.lo, 0)

\* byte i (1 the least significant) of the two's-complement form of v
ByteOf(v, i) == BitAnd(Sar(v, 8 * (i - 1)), 255)

\* the two's-complement form of v on width bytes, in the byte order given
TwosComplement(v, width, endian) ==
    [i \in 1..width |-> ByteOf(v, IF endian = "little" THEN i ELSE width + 1 - i)]

\* C9 (width preservation): a Byte, Short or Int built from an integer x
\* holds (x << 24) >> 24, (x << 16) >> 16 or x | 0; the writer emits 1, 2 or
\* 4 payload bytes, the two's-complement form of that value; the read of
\* those bytes gives a wrapper of the same class and the same value.
WidthPreservation ==
    /\ pc # "start" =>
           (tree.js = opts.kind /\ tree.v = Narrowed(opts.kind, opts.x))
    /\ pc \in {"written", "read"} =>
           /\ res.ok
           /\ Len(PayloadOf(res.bytes)) = WidthOf(opts.kind)
           /\ PayloadOf(res.bytes) =
                  TwosComplement(Narrowed(opts.kind, opts.x), WidthOf(opts.kind),
                                 opts.endian)
    /\ pc = "read" =>
           /\ res2.ok
           /\ Len(res2.value.v.data.v) = 1
           /\ res2.value.v.data.v[1].t.js = opts.kind
           /\ res2.value.v.data.v[1].t.v = Narrowed(opts.kind, opts.x)

\* A Byte built from an integer beyond 32 bits, whose low byte has its
\* sign bit set, has been written and read back.
WideByteReadBack ==
    /\ pc = "read"
    /\ opts.kind = "Byte"
    /\ opts.x.hi # 0
    /\ opts.x.lo > 127
    /\ tree.v < 0
    /\ res2.ok

---------------------------------------------------------------------------
(* Numbers as text.  `${n}` and Number(text), BigInt(text) on the numbers  *)
(* the trees of the model hold: integers, 64-bit integers held as 8 bytes, *)
(* and the floats k / 2^s with k below 2^21 and s 0 or 1.                  *)

\* the character of a text that holds a number the model does not represent
NoChar == 0 - 1

\* `${n}` of an integer
IntToString(n) ==
    IF n = MinInt32 THEN <<45, 50, 49, 52, 55, 52, 56, 51, 54, 52, 56>>
    ELSE IF n < 0 THEN <<45>> \o DecimalDigits(0 - n)
    ELSE DecimalDigits(n)

\* bytes \div 10 followed by bytes % 10, on big-endian bytes
RECURSIVE Div10From(_, _, _)
Div10From(bytes, i, rem) ==
    IF i > Len(bytes) THEN <<rem>>
    ELSE <<(rem * 256 + bytes[i]) \div 10>>
             \o Div10From(bytes, i + 1, (rem * 256 + bytes[i]) % 10)

IsZero(bytes) == \A i \in 1..Len(bytes) : bytes[i] = 0

\* the decimal digits of an unsigned big-endian integer
RECURSIVE MagnitudeDigits(_)
MagnitudeDigits(bytes) ==
    IF IsZero(SubSeq(Div10From(bytes, 1, 0), 1, Len(bytes)))
    THEN <<48 + Div10From(bytes, 1, 0)[Len(bytes) + 1]>>
    ELSE Append(MagnitudeDigits(SubSeq(Div10From(bytes, 1, 0), 1, Len(bytes))),
                48 + Div10From(bytes, 1, 0)[Len(bytes) + 1])

\* bytes + carry on big-endian bytes, modulo 2^(8 * i)
RECURSIVE AddFrom(_, _, _)
AddFrom(bytes, i, carry) ==
    IF i = 0 THEN <<>>
    ELSE Append(AddFrom(bytes, i - 1, (bytes[i] + carry) \div 256),
                (bytes[i] + carry) % 256)

\* -x of a 64-bit integer
Negate64(bytes8) == AddFrom([i \in 1..8 |-> 255 - bytes8[i]], 8, 1)

\* `${value}` of a bigint of 64 bits
BigIntToString(bytes8) ==
    IF bytes8[1] >= 128 THEN <<45>> \o MagnitudeDigits(Negate64(bytes8))
    ELSE MagnitudeDigits(bytes8)

\* bytes * 10 + carry on big-endian bytes, modulo 2^(8 * i)
RECURSIVE MulAdd10(_, _, _)
MulAdd10(bytes, i, carry) ==
    IF i = 0 THEN <<>>
    ELSE Append(MulAdd10(bytes, i - 1, (bytes[i] * 10 + carry) \div 256),
                (bytes[i] * 10 + carry) % 256)

\* the value of decimal digits as 8 big-endian bytes, modulo 2^64
RECURSIVE DigitsToBytes(_, _)
DigitsToBytes(digits, acc) ==
    IF digits = <<>> THEN acc
    ELSE DigitsToBytes(Tail(digits), MulAdd10(acc, 8, Head(digits) - 48))

Zero64 == <<0, 0, 0, 0, 0, 0, 0, 0>>

IsSign(c) == c = 43 \/ c = 45

\* the digits of a decimal text after its sign
Unsigned(value) == IF value # <<>> /\ IsSign(value[1]) THEN Tail(value) ELSE value

\* BigInt(value) of a decimal text with an optional sign, on 64 bits
BigIntOf(value) ==
    IF value[1] = 45 THEN Negate64(DigitsToBytes(Unsigned(value), Zero64))
    ELSE DigitsToBytes(Unsigned(value), Zero64)

\* Number(value) of a decimal text with an optional sign: the two words of
\* the integer, exact below 2^53
NumberOfInteger(value) ==
    [hi |-> Int32Of(SubSeq(BigIntOf(value), 1, 4), FALSE),
     lo |-> Int32Of(SubSeq(BigIntOf(value), 5, 8), FALSE)]

\* A float of the model: kind "num" is k / 2^s (negative when neg), kind
\* "nan" and "inf" are NaN and the infinities, kind "out" is every other
\* float.
Dyadic(neg, k, s) == [kind |-> "num", neg |-> neg, k |-> k, s |-> s]
NotDyadic(kind, neg) == [kind |-> kind, neg |-> neg, k |-> 0, s |-> 0]

\* the float twice / 2
Halves(neg, twice) ==
    IF twice % 2 = 0 THEN Dyadic(neg, twice \div 2, 0) ELSE Dyadic(neg, twice, 1)

\* the float sig / 2^shift of a significand of width bits
Scaled(neg, sig, shift, width) ==
    IF shift \in 1..width /\ sig % Pow2[shift] = 0 /\ sig \div Pow2[shift] < Pow2[22]
    THEN Halves(neg, sig \div Pow2[shift])
    ELSE NotDyadic("out", neg)

\* the float of a biased exponent e and a mantissa m of width - 1 bits
Ieee(neg, e, m, lowZero, emax, width) ==
    IF e = emax THEN NotDyadic(IF m = 0 /\ lowZero THEN "inf" ELSE "nan", neg)
    ELSE IF e = 0 /\ m = 0 /\ lowZero THEN Dyadic(neg, 0, 0)
    ELSE IF e = 0 \/ ~lowZero THEN NotDyadic("out", neg)
    ELSE Scaled(neg, Pow2[width] + m, (emax \div 2) + width - 1 - e, width)

\* the value of a Float: getFloat32 of its 4 bytes
Float32Value(b) ==
    Ieee(b[1] >= 128, (b[1] % 128) * 2 + (b[2] \div 128),
         (b[2] % 128) * 65536 + b[3] * 256 + b[4], TRUE, 255, 24)

\* the value of a number: getFloat64 of its 8 bytes
Float64Value(b) ==
    Ieee(b[1] >= 128, (b[1] % 128) * 16 + (b[2] \div 16),
         (b[2] % 16) * 65536 + b[3] * 256 + b[4],
         IsZero(SubSeq(b, 5, 8)), 2047, 21)

\* floor(log2(k)) of k from 1 to 2^31 - 1
HighBit(k) == CHOOSE h \in 0..30 : Pow2[h + 1] <= k /\ (h = 30 \/ k < Pow2[h + 2])

Sign(neg) == IF neg THEN 128 ELSE 0

\* setFloat32 of k / 2^s, k below 2^24
Float32Bytes(neg, k, s) ==
    IF k = 0 THEN <<Sign(neg), 0, 0, 0>>
    ELSE LET e == 127 + HighBit(k) - s
             m == (k - Pow2[HighBit(k) + 1]) * Pow2[24 - HighBit(k)]
         IN <<Sign(neg) + (e \div 2), (e % 2) * 128 + (m \div 65536),
              (m \div 256) % 256, m % 256>>

\* setFloat64 of k / 2^s, k below 2^21
Float64Bytes(neg, k, s) ==
    IF k = 0 THEN <<Sign(neg), 0, 0, 0, 0, 0, 0, 0>>
    ELSE LET e == 1023 + HighBit(k) - s
             m == (k - Pow2[HighBit(k) + 1]) * Pow2[21 - HighBit(k)]
         IN <<Sign(neg) + (e \div 16), (e % 16) * 16 + (m \div 65536),
              (m \div 256) % 256, m % 256, 0, 0, 0, 0>>

\* `${x}` of a float: -0 prints as 0, a half as .5
NumberToString(x) ==
    CASE x.kind = "nan" -> <<78, 97, 78>>
      [] x.kind = "inf" ->
           (IF x.neg THEN <<45>> ELSE <<>>) \o <<73, 110, 102, 105, 110, 105, 116, 121>>
      [] x.kind = "out" -> <<NoChar>>
      [] x.kind = "num" ->
           (IF x.neg /\ x.k # 0 THEN <<45>> ELSE <<>>)
               \o DecimalDigits(x.k \div Pow2[x.s + 1])
               \o (IF x.s = 1 THEN <<46, 53>> ELSE <<>>)

RECURSIVE DigitRun(_, _)
\* the number of digits of s from index i on
DigitRun(s, i) == IF i <= Len(s) /\ IsDigit(s[i]) THEN 1 + DigitRun(s, i + 1) ELSE 0

\* the character of s at index i, NoChar beyond its end
CharAt(s, i) == IF i \in 1..Len(s) THEN s[i] ELSE NoChar

\* s from index i on
From(s, i) == SubSeq(s, i, Len(s))

NoMatch == [ok |-> FALSE, value |-> <<>>, suffix |-> <<>>]

\* an empty suffix or one of the letters, in either case ([bls]? with flag i)
IsSuffix(rest, letters) ==
    rest = <<>> \/ (Len(rest) = 1 /\ (rest[1] \in letters \/ rest[1] + 32 \in letters))

\* string.match(INTEGER_PATTERN): /^([-+]?(?:0|[1-9][0-9]*))([bls]?)$/i
MatchInteger(string) ==
    LET p == IF IsSign(CharAt(string, 1)) THEN 2 ELSE 1
        n == DigitRun(string, p)
    IN IF /\ n >= 1
          /\ (string[p] = 48 => n = 1)
          /\ IsSuffix(From(string, p + n), {98, 108, 115})
       THEN [ok |-> TRUE, value |-> SubSeq(string, 1, p + n - 1),
             suffix |-> From(string, p + n)]
       ELSE NoMatch

\* the end of the exponent that starts at index i, i when there is none:
\* (?:e[-+]?[0-9]+)?
ExponentEnd(string, i) ==
    LET d == IF IsSign(CharAt(string, i + 1)) THEN i + 2 ELSE i + 1
    IN IF CharAt(string, i) \in {69, 101} /\ DigitRun(string, d) >= 1
       THEN d + DigitRun(string, d)
       ELSE i

\* string.match(FLOAT_PATTERN):
\* /^([-+]?(?:[0-9]+[.]?|[0-9]*[.][0-9]+)(?:e[-+]?[0-9]+)?)([df]?)$/i
MatchFloat(string) ==
    LET p == IF IsSign(CharAt(string, 1)) THEN 2 ELSE 1
        n1 == DigitRun(string, p)
        dot == CharAt(string, p + n1) = 46
        n2 == IF dot THEN DigitRun(string, p + n1 + 1) ELSE 0
        q == p + n1 + (IF dot THEN 1 ELSE 0) + n2
        r == ExponentEnd(string, q)
    IN IF /\ (n1 >= 1 \/ (dot /\ n2 >= 1))
          /\ IsSuffix(From(string, r), {100, 102})
       THEN [ok |-> TRUE, value |-> SubSeq(string, 1, r - 1), suffix |-> From(string, r)]
       ELSE NoMatch

\* BOOLEAN_PATTERN.test(string): /^(true|false)$/
MatchBoolean(string) ==
    string = <<116, 114, 117, 101>> \/ string = <<102, 97, 108, 115, 101>>

RECURSIVE StripLeadingZeros(_)
StripLeadingZeros(digits) ==
    IF digits # <<>> /\ Head(digits) = 48 THEN StripLeadingZeros(Tail(digits)) ELSE digits

RECURSIVE StripTrailingZeros(_)
StripTrailingZeros(digits) ==
    IF digits # <<>> /\ digits[Len(digits)] = 48
    THEN StripTrailingZeros(SubSeq(digits, 1, Len(digits) - 1))
    ELSE digits

Pow10 == <<1, 10, 100, 1000>>

\* Number(value) of a text that FLOAT_PATTERN has matched: integer digits,
\* fraction digits and exponent; a float of the model when the integer part
\* is below 10^6, the fraction nothing or a half, the exponent 0 to 3
NumberOfFloat(value) ==
    LET neg == CharAt(value, 1) = 45
        p == IF IsSign(CharAt(value, 1)) THEN 2 ELSE 1
        n1 == DigitRun(value, p)
        dot == CharAt(value, p + n1) = 46
        n2 == IF dot THEN DigitRun(value, p + n1 + 1) ELSE 0
        q == p + n1 + (IF dot THEN 1 ELSE 0) + n2
        int == StripLeadingZeros(SubSeq(value, p, p + n1 - 1))
        frac == StripTrailingZeros(SubSeq(value, p + n1 + 1, p + n1 + n2))
        eneg == CharAt(value, q + 1) = 45
        exp == StripLeadingZeros(From(value, IF IsSign(CharAt(value, q + 1))
                                            THEN q + 2 ELSE q + 1))
    IN IF int = <<>> /\ frac = <<>> THEN Dyadic(neg, 0, 0)
       ELSE IF \/ Len(int) > 6
               \/ (frac # <<>> /\ frac # <<53>>)
               \/ Len(exp) > 1
               \/ (exp # <<>> /\ (eneg \/ exp[1] > 51))
       THEN NotDyadic("out", neg)
       ELSE IF (2 * IndexValue(int) + Len(frac)) * Pow10[IndexValue(exp) + 1] >= Pow2[22]
       THEN NotDyadic("out", neg)
       ELSE Halves(neg, (2 * IndexValue(int) + Len(frac)) * Pow10[IndexValue(exp) + 1])

---------------------------------------------------------------------------
(* SNBTWriter (stringify.ts).  A text is the sequence of its characters;   *)
(* #space and #level are handed down the calls.                            *)

\* parts.join(separator)
RECURSIVE Join(_, _)
Join(parts, separator) ==
    IF Len(parts) = 0 THEN <<>>
    ELSE IF Len(parts) = 1 THEN parts[1]
    ELSE parts[1] \o separator \o Join(Tail(parts), separator)

\* unit.repeat(count)
Repeat(unit, count) ==
    [i \in 1..(Len(unit) * count) |-> unit[((i - 1) % Len(unit)) + 1]]

\* value.replace(/[<quote>\\]/g, character => `\\${character}`)
Escape(value, quote) ==
    Flatten([i \in 1..Len(value) |->
                IF value[i] = quote \/ value[i] = 92 THEN <<92, value[i]>>
                ELSE <<value[i]>>])

\* a character of [0-9a-z_\-.+] under the flag i
IsUnquotedChar(c) ==
    c \in (48..57) \cup (65..90) \cup (97..122) \cup {95, 45, 46, 43}

\* /^[0-9a-z_\-.+]+$/i.test(key)
IsUnquotedKey(key) == Len(key) > 0 /\ \A i \in 1..Len(key) : IsUnquotedChar(key[i])

\* sanitizeList: the entries that are tags
sanitizeList(value) == FilterTags(value.v)

\* sanitizeCompound: the entries whose value is a tag
RECURSIVE FilterEntries(_)
FilterEntries(entries) ==
    IF Len(entries) = 0 THEN <<>>
    ELSE IF getTagType(Head(entries).t) # NoType
         THEN <<Head(entries)>> \o FilterEntries(Tail(entries))
         ELSE FilterEntries(Tail(entries))

sanitizeCompound(value) == FilterEntries(ObjectEntries(value))

snbtWriteByte(value) ==
    IF value.js = "boolean"
    THEN (IF value.v THEN <<116, 114, 117, 101>> ELSE <<102, 97, 108, 115, 101>>)
    ELSE IntToString(value.v) \o <<98>>

snbtWriteShort(value) == IntToString(value.v) \o <<115>>

snbtWriteInt(value) == IntToString(value.v)

snbtWriteLong(value) == BigIntToString(value.v) \o <<108>>

snbtWriteFloat(value) == NumberToString(Float32Value(value.v)) \o <<102>>

snbtWriteDouble(value) == NumberToString(Float64Value(value.v)) \o <<100>>

snbtWriteByteArray(value) ==
    <<91, 66, 59>>
        \o Join([i \in 1..Len(value.v) |-> IntToString(value.v[i]) \o <<98>>], <<44>>)
        \o <<93>>

snbtWriteString(value) ==
    IF Len(Escape(value, 39)) < Len(Escape(value, 34))
    THEN <<39>> \o Escape(value, 39) \o <<39>>
    ELSE <<34>> \o Escape(value, 34) \o <<34>>

snbtWriteIntArray(value) ==
    <<91, 73, 59>>
        \o Join([i \in 1..Len(value.v) |-> IntToString(value.v[i])], <<44>>)
        \o <<93>>

snbtWriteLongArray(value) ==
    <<91, 76, 59>>
        \o Join([i \in 1..Len(value.v) |-> BigIntToString(value.v[i]) \o <<108>>], <<44>>)
        \o <<93>>

RECURSIVE snbtWriteTag(_, _, _)

\* a line break and the indentation of a level
Indent(space, level) == <<10>> \o Repeat(space, level)

snbtWriteList(value, space, level) ==
    LET fancy == Len(space) # 0
        type == IF Len(value) # 0 THEN getTagType(value[1]) ELSE TAG.END
        isIndentedList ==
            fancy /\ type \in {TAG.BYTE_ARRAY, TAG.LIST, TAG.COMPOUND,
                               TAG.INT_ARRAY, TAG.LONG_ARRAY}
    IN <<91>>
         \o Join([i \in 1..Len(value) |->
                     (IF isIndentedList THEN Indent(space, level) ELSE <<>>)
                         \o snbtWriteTag(value[i], space, level + 1)],
                 <<44>> \o (IF fancy /\ ~isIndentedList THEN <<32>> ELSE <<>>))
         \o (IF isIndentedList THEN Indent(space, level - 1) ELSE <<>>)
         \o <<93>>

snbtWriteCompound(value, space, level) ==
    LET fancy == Len(space) # 0
    IN <<123>>
         \o Join([i \in 1..Len(value) |->
                     (IF fancy THEN Indent(space, level) ELSE <<>>)
                         \o (IF IsUnquotedKey(value[i].k) THEN value[i].k
                             ELSE snbtWriteString(value[i].k))
                         \o <<58>>
                         \o (IF fancy THEN <<32>> ELSE <<>>)
                         \o snbtWriteTag(value[i].t, space, level + 1)],
                 <<44>>)
         \o (IF fancy /\ Len(value) # 0 THEN Indent(space, level - 1) ELSE <<>>)
         \o <<125>>

snbtWriteTag(value, space, level) ==
    CASE getTagType(value) = TAG.BYTE -> snbtWriteByte(value)
      [] getTagType(value) = TAG.SHORT -> snbtWriteShort(value)
      [] getTagType(value) = TAG.INT -> snbtWriteInt(value)
      [] getTagType(value) = TAG.LONG -> snbtWriteLong(value)
      [] getTagType(value) = TAG.FLOAT -> snbtWriteFloat(value)
      [] getTagType(value) = TAG.DOUBLE -> snbtWriteDouble(value)
      [] getTagType(value) = TAG.BYTE_ARRAY -> snbtWriteByteArray(value)
      [] getTagType(value) = TAG.STRING -> snbtWriteString(Chars(value))
      [] getTagType(value) = TAG.LIST -> snbtWriteList(sanitizeList(value), space, level)
      [] getTagType(value) = TAG.COMPOUND ->
           snbtWriteCompound(sanitizeCompound(value), space, level)
      [] getTagType(value) = TAG.INT_ARRAY -> snbtWriteIntArray(value)
      [] getTagType(value) = TAG.LONG_ARRAY -> snbtWriteLongArray(value)

\* The options of stringify: a JS value, of which an object holds space.
StringifyOptions(space) == [js |-> "Object", space |-> space]
NotAnObject(js) == [js |-> js, space |-> Undef]

Text(string) == [ok |-> TRUE, err |-> "", text |-> string]
TextError(err) == [ok |-> FALSE, err |-> err, text |-> <<>>]

UnrepresentedNumber == "a number that the model does not represent"

\* { space = "" } = options
SpaceOf(options) ==
    IF options.js # "Object" \/ options.space.k = "undefined" THEN SomeString(<<>>)
    ELSE options.space

\* SNBTWriter.write
SNBTWriterWrite(dataIn, space) ==
    IF ~IsObject(Unwrap(dataIn)) THEN TextError("TypeError: First parameter must be an object")
    ELSE IF space.k \notin {"string", "number"}
    THEN TextError("TypeError: Space option must be a string or number")
    ELSE IF space.k = "number" /\ space.v < 0
    THEN TextError("RangeError: Invalid count value")
    ELSE Text(snbtWriteCompound(sanitizeCompound(Unwrap(dataIn)),
                                IF space.k = "number" THEN Repeat(<<32>>, space.v)
                                ELSE space.v,
                                1))

\* the text, when every number of it is one the model represents
Represented(result) ==
    IF result.ok /\ \E i \in 1..Len(result.text) : result.text[i] = NoChar
    THEN TextError(UnrepresentedNumber)
    ELSE result

\* stringify(data, options)
stringify(dataIn, options) ==
    IF options.js = "null"
    THEN TextError("TypeError: Cannot destructure property 'space' of 'object null'")
    ELSE IF ~IsObject(Unwrap(dataIn))
    THEN TextError("TypeError: First parameter must be an object")
    ELSE IF SpaceOf(options).k \notin {"string", "number"}
    THEN TextError("TypeError: Space option must be a string or number")
    ELSE Represented(SNBTWriterWrite(Unwrap(dataIn), SpaceOf(options)))

---------------------------------------------------------------------------
(* SNBTReader (parse.ts).  The reader's state rd is the record of its      *)
(* private fields #data and #byteOffset and whether a throw has ended it.  *)
(* Every read returns [rd, v]: the state after it and the value read.      *)

NewSNBTReader(string) == [ok |-> TRUE, err |-> "", data |-> string, off |-> 0]

\* #allocate
snbtAllocate(rd, byteLength) == rd.off + byteLength <= Len(rd.data)

\* #peek: the character at #byteOffset + byteOffset, NoChar for undefined
snbtPeek(rd, byteOffset) == CharAt(rd.data, rd.off + byteOffset + 1)

\* WHITESPACE_PATTERN.test(c): the characters of \s
IsWhitespace(c) ==
    c \in {9, 10, 11, 12, 13, 32, 160, 5760, 8232, 8233, 8239, 8287, 12288, 65279}
              \cup (8192..8202)

RECURSIVE skipWhitespace(_)
skipWhitespace(rd) ==
    IF snbtAllocate(rd, 1) /\ IsWhitespace(snbtPeek(rd, 0))
    THEN skipWhitespace(Advance(rd, 1))
    ELSE rd

\* #skipSeperator after its first #skipWhitespace
skipSeperatorAt(sk) ==
    IF ~snbtAllocate(sk, 1) \/ snbtPeek(sk, 0) # 44 THEN R(sk, FALSE)
    ELSE R(skipWhitespace(Advance(sk, 1)), TRUE)

skipSeperator(rd) == skipSeperatorAt(skipWhitespace(rd))

ExpectedError(character) ==
    CASE character = 123 -> "Error: Expected '{'"
      [] character = 58 -> "Error: Expected ':'"
      [] character = 91 -> "Error: Expected '['"
      [] character = 93 -> "Error: Expected ']'"

\* #expect
expect(rd, character) ==
    IF ~snbtAllocate(rd, 1) \/ snbtPeek(rd, 0) # character
    THEN Fail(rd, ExpectedError(character))
    ELSE Advance(rd, 1)

JsNull == [js |-> "null", v |-> 0]

\* a number outside the floats of the model
Unrepresented == [js |-> "unrepresented", v |-> 0]

\* #readInteger; Int8, Int16 and Int32 are the classes Byte, Short and Int
readInteger(match) ==
    CASE match.suffix \in {<<98>>, <<66>>} -> Byte(NumberOfInteger(match.value))
      [] match.suffix \in {<<115>>, <<83>>} -> Short(NumberOfInteger(match.value))
      [] match.suffix \in {<<108>>, <<76>>} -> BigInt(BigIntOf(match.value))
      [] OTHER -> Int32(NumberOfInteger(match.value))

\* the tag of a float: Float32 for the suffix f, a number otherwise
FloatTag(x, suffix) ==
    IF x.kind # "num" THEN Unrepresented
    ELSE IF suffix \in {<<102>>, <<70>>} THEN Float(Float32Bytes(x.neg, x.k, x.s))
    ELSE Double(Float64Bytes(x.neg, x.k, x.s))

\* #readFloat
snbtReadFloat(match) == FloatTag(NumberOfFloat(match.value), match.suffix)

\* Boolean(string): a string that is not empty is true
BooleanOf(string) == Bool(Len(string) # 0)

\* the tag of an unquoted token (#readTag, the three patterns in order)
TokenTag(string) ==
    IF MatchInteger(string).ok THEN readInteger(MatchInteger(string))
    ELSE IF MatchFloat(string).ok THEN snbtReadFloat(MatchFloat(string))
    ELSE IF MatchBoolean(string) THEN BooleanOf(string)
    ELSE Str(string)

\* the length of the match of UNQUOTED_STRING_OPEN_PATTERN at index i
RECURSIVE UnquotedRun(_, _)
UnquotedRun(s, i) ==
    IF i <= Len(s) /\ IsUnquotedChar(s[i]) THEN 1 + UnquotedRun(s, i + 1) ELSE 0

\* #readUnquotedString
readUnquotedString(rd) ==
    IF UnquotedRun(rd.data, rd.off + 1) = 0 THEN R(rd, JsNull)
    ELSE R(Advance(rd, UnquotedRun(rd.data, rd.off + 1)),
           Str(SubSeq(rd.data, rd.off + 1, rd.off + UnquotedRun(rd.data, rd.off + 1))))

\* #readQuotedString from the character after the opening quote: string is
\* the text read so far
RECURSIVE readQuotedFrom(_, _, _)
readQuotedFrom(rd, quoteChar, string) ==
    IF ~snbtAllocate(rd, 1) THEN R(Fail(rd, "Error: Missing end quote"), NoValue)
    ELSE IF snbtPeek(rd, 0) = 92
    THEN IF ~snbtAllocate(rd, 2)
         THEN R(Fail(Advance(rd, 1),
                     "Error: Unexpected end while reading escape sequence"), NoValue)
         ELSE IF snbtPeek(rd, 1) # quoteChar /\ snbtPeek(rd, 1) # 92
         THEN R(Fail(Advance(rd, 1), "Error: Invalid escape character"), NoValue)
         ELSE readQuotedFrom(Advance(rd, 2), quoteChar, Append(string, snbtPeek(rd, 1)))
    ELSE IF snbtPeek(rd, 0) = quoteChar THEN R(Advance(rd, 1), Str(string))
    ELSE readQuotedFrom(Advance(rd, 1), quoteChar, Append(string, snbtPeek(rd, 0)))

readQuotedString(rd, quoteChar) == readQuotedFrom(Advance(rd, 1), quoteChar, <<>>)

IsQuote(c) == c = 34 \/ c = 39

\* #readString
snbtReadString(rd) ==
    IF IsQuote(snbtPeek(rd, 0)) THEN readQuotedString(rd, snbtPeek(rd, 0))
    ELSE readUnquotedString(rd)

\* #readTag once the token is read
readToken(token) ==
    IF token.v.js = "null"
    THEN R(Fail(token.rd, "Error: Unexpected character while reading tag"), NoValue)
    ELSE IF TokenTag(token.v.v).js = "unrepresented"
    THEN R(Fail(token.rd, UnrepresentedNumber), NoValue)
    ELSE R(token.rd, TokenTag(token.v.v))

\* tag.valueOf() stored into an Int8Array or Int32Array: the integer part of
\* a number; not a number for a bigint (the store throws) and for the
\* values whose conversion the model does not follow
IntegerOf(tag) ==
    CASE tag.js \in {"Byte", "Short", "Int"} -> [kind |-> "int", v |-> tag.v]
      [] tag.js = "boolean" -> [kind |-> "int", v |-> IF tag.v THEN 1 ELSE 0]
      [] tag.js = "Float" /\ Float32Value(tag.v).kind = "num" ->
           [kind |-> "int",
            v |-> (IF Float32Value(tag.v).neg THEN 0 - 1 ELSE 1)
                      * (Float32Value(tag.v).k \div Pow2[Float32Value(tag.v).s + 1])]
      [] tag.js = "number" /\ Float64Value(tag.v).kind = "num" ->
           [kind |-> "int",
            v |-> (IF Float64Value(tag.v).neg THEN 0 - 1 ELSE 1)
                      * (Float64Value(tag.v).k \div Pow2[Float64Value(tag.v).s + 1])]
      [] tag.js = "bigint" -> [kind |-> "bigint", v |-> 0]
      [] OTHER -> [kind |-> "unrepresented", v |-> 0]

\* tag stored into a BigInt64Array: a bigint or a boolean; the store throws
\* for a number
BigIntegerOf(tag) ==
    CASE tag.js = "bigint" -> [kind |-> "int", v |-> tag.v]
      [] tag.js = "boolean" ->
           [kind |-> "int", v |-> <<0, 0, 0, 0, 0, 0, 0, IF tag.v THEN 1 ELSE 0>>]
      [] tag.js \in {"Byte", "Short", "Int", "Float", "number"} ->
           [kind |-> "number", v |-> Zero64]
      [] OTHER -> [kind |-> "unrepresented", v |-> Zero64]

\* the typed array of the converted entries, or the throw of a store
TypedArray(rd, entries, array) ==
    IF \E i \in 1..Len(entries) : entries[i].kind = "unrepresented"
    THEN R(Fail(rd, UnrepresentedNumber), NoValue)
    ELSE IF \E i \in 1..Len(entries) : entries[i].kind = "bigint"
    THEN R(Fail(rd, "TypeError: Cannot convert a BigInt value to a number"), NoValue)
    ELSE IF \E i \in 1..Len(entries) : entries[i].kind = "number"
    THEN R(Fail(rd, "TypeError: Cannot convert a number to a BigInt"), NoValue)
    ELSE R(rd, array)

\* #readByteArray
snbtReadByteArray(rd, tags) ==
    TypedArray(rd, [i \in 1..Len(tags) |-> IntegerOf(tags[i])],
               Int8Array([i \in 1..Len(tags) |-> ShlShr24(IntegerOf(tags[i]).v)]))

\* #readIntArray
snbtReadIntArray(rd, entries) ==
    TypedArray(rd, [i \in 1..Len(entries) |-> IntegerOf(entries[i])],
               Int32Array([i \in 1..Len(entries) |-> IntegerOf(entries[i]).v]))

\* #readLongArray
snbtReadLongArray(rd, entries) ==
    TypedArray(rd, [i \in 1..Len(entries) |-> BigIntegerOf(entries[i])],
               BigInt64Array([i \in 1..Len(entries) |-> BigIntegerOf(entries[i]).v]))

RECURSIVE snbtReadTag(_)
RECURSIVE readSomeListEntries(_, _, _)
RECURSIVE readCompoundTagEntries(_, _)

\* #readSomeList from the closing bracket on
readSomeListEnd(rd, tagType, tags) ==
    IF ~snbtAllocate(rd, 1) THEN R(Fail(rd, "Error: Expected tag or ']'"), NoValue)
    ELSE IF ~expect(rd, 93).ok THEN R(expect(rd, 93), NoValue)
    ELSE CASE tagType = TAG.BYTE_ARRAY -> snbtReadByteArray(expect(rd, 93), tags)
           [] tagType = TAG.LIST -> R(expect(rd, 93), Arr(tags))
           [] tagType = TAG.INT_ARRAY -> snbtReadIntArray(expect(rd, 93), tags)
           [] tagType = TAG.LONG_ARRAY -> snbtReadLongArray(expect(rd, 93), tags)

\* after an entry and #skipSeperator: the next entry, or the end
readListSeparator(sep, tagType, tags) ==
    IF sep.v THEN readSomeListEntries(sep.rd, tagType, tags)
    ELSE IF snbtPeek(sep.rd, 0) # 93
    THEN R(Fail(sep.rd, "Error: Unexpected character at end of tag"), NoValue)
    ELSE readSomeListEnd(sep.rd, tagType, tags)

\* tags.push(tag)
readListEntry(tag, tagType, tags) ==
    IF ~tag.rd.ok THEN R(tag.rd, NoValue)
    ELSE readListSeparator(skipSeperator(tag.rd), tagType, Append(tags, tag.v))

\* the loop of #readSomeList
readSomeListEntries(rd, tagType, tags) ==
    IF snbtAllocate(rd, 1) /\ snbtPeek(rd, 0) # 93
    THEN readListEntry(snbtReadTag(rd), tagType, tags)
    ELSE readSomeListEnd(rd, tagType, tags)

\* the typed array of a type letter
ArrayType(char) ==
    CASE char = 66 -> TAG.BYTE_ARRAY
      [] char = 73 -> TAG.INT_ARRAY
      [] char = 76 -> TAG.LONG_ARRAY
      [] OTHER -> NoType

\* #readSomeList after the opening bracket
readSomeListType(ex) ==
    IF ~ex.ok THEN R(ex, NoValue)
    ELSE IF snbtAllocate(ex, 2) /\ snbtPeek(ex, 1) = 59
    THEN IF ArrayType(snbtPeek(ex, 0)) = NoType
         THEN R(Fail(ex, "Error: Invalid array type"), NoValue)
         ELSE readSomeListEntries(skipWhitespace(Advance(ex, 2)),
                              ArrayType(snbtPeek(ex, 0)), <<>>)
    ELSE readSomeListEntries(skipWhitespace(ex), TAG.LIST, <<>>)

readSomeList(rd) == readSomeListType(expect(rd, 91))

\* #readCompoundTag from the closing brace on
readCompoundEnd(rd, tag) ==
    IF ~snbtAllocate(rd, 1)
    THEN R(Fail(rd, "Error: Expected key-value pair or '}'"), NoValue)
    ELSE R(Advance(rd, 1), Obj(tag))

\* after an entry and #skipSeperator: the next entry, or the end
readCompoundSeparator(sep, tag) ==
    IF sep.v THEN readCompoundTagEntries(sep.rd, tag)
    ELSE IF snbtPeek(sep.rd, 0) # 125
    THEN R(Fail(sep.rd, "Error: Unexpected character at end of tag"), NoValue)
    ELSE readCompoundEnd(sep.rd, tag)

\* tag[key] = this.#readTag()
readCompoundEntry(entry, key, tag) ==
    IF ~entry.rd.ok THEN R(entry.rd, NoValue)
    ELSE readCompoundSeparator(skipSeperator(entry.rd), ObjSet(tag, key, entry.v))

readCompoundValue(ex, key, tag) ==
    IF ~ex.ok THEN R(ex, NoValue) ELSE readCompoundEntry(snbtReadTag(ex), key, tag)

\* the checks of the key, then the colon
readCompoundColon(key, tag) ==
    IF ~key.rd.ok THEN R(key.rd, NoValue)
    ELSE IF key.v.js = "null"
    THEN R(Fail(key.rd, "Error: Unexpected character while expecting key-value pair or '}'"),
           NoValue)
    ELSE IF Len(key.v.v) = 0 THEN R(Fail(key.rd, "Error: Key cannot be empty"), NoValue)
    ELSE readCompoundValue(expect(skipWhitespace(key.rd), 58), key.v.v, tag)

readCompoundKey(sk, tag) ==
    IF snbtPeek(sk, 0) = 125 THEN readCompoundEnd(sk, tag)
    ELSE readCompoundColon(snbtReadString(sk), tag)

\* the loop of #readCompoundTag
readCompoundTagEntries(rd, tag) ==
    IF snbtAllocate(rd, 1) /\ snbtPeek(rd, 0) # 125
    THEN readCompoundKey(skipWhitespace(rd), tag)
    ELSE readCompoundEnd(rd, tag)

readCompoundOpen(ex) ==
    IF ~ex.ok THEN R(ex, NoValue) ELSE readCompoundTagEntries(ex, <<>>)

readCompoundTag(rd) == readCompoundOpen(expect(skipWhitespace(rd), 123))

\* #readTag after #skipWhitespace
snbtReadTagAt(sk) ==
    IF ~snbtAllocate(sk, 1) THEN R(Fail(sk, "Error: Expected tag"), NoValue)
    ELSE IF snbtPeek(sk, 0) = 123 THEN readCompoundTag(sk)
    ELSE IF snbtPeek(sk, 0) = 91 THEN readSomeList(sk)
    ELSE IF IsQuote(snbtPeek(sk, 0)) THEN readQuotedString(sk, snbtPeek(sk, 0))
    ELSE readToken(readUnquotedString(sk))

snbtReadTag(rd) == snbtReadTagAt(skipWhitespace(rd))

Parsed(value) == [ok |-> TRUE, err |-> "", value |-> value]
ParseError(err) == [ok |-> FALSE, err |-> err, value |-> NoValue]

\* SNBTReader.read after #readCompoundTag and #skipWhitespace
SNBTReaderReadEnd(tag, sk) ==
    IF snbtAllocate(sk, 1)
    THEN IF \/ sk.off > tag.rd.off
            \/ getTagType(tag.v) \in {TAG.LIST, TAG.COMPOUND}
            \/ IsQuote(snbtPeek(tag.rd, 0 - 1))
         THEN ParseError("Error: Unexpected non-whitespace character after tag")
         ELSE ParseError("Error: Unexpected character at end of tag")
    ELSE Parsed(tag.v)

SNBTReaderReadTag(tag) ==
    IF ~tag.rd.ok THEN ParseError(tag.rd.err)
    ELSE SNBTReaderReadEnd(tag, skipWhitespace(tag.rd))

\* SNBTReader.read
SNBTReaderRead(string) ==
    IF string.js # "string" THEN ParseError("TypeError: First parameter must be a string")
    ELSE SNBTReaderReadTag(readCompoundTag(NewSNBTReader(Chars(string))))

\* parse(data)
parse(string) ==
    IF string.js # "string" THEN ParseError("TypeError: First parameter must be a string")
    ELSE SNBTReaderRead(string)

---------------------------------------------------------------------------
(* The values a caller hands to stringify and parse.                       *)

\* the leaves, and the leaves the textual form is particular about: the
\* float -0, a half, and strings that hold quotes or read as other tokens
SnbtLeaves ==
    Leaves \o << Double(<<128, 0, 0, 0, 0, 0, 0, 0>>), Float(<<63, 192, 0, 0>>),
                 Str(<<39, 92>>), Str(<<116, 114, 117, 101>>), Str(<<49, 98>>) >>

SnbtShapes == {1, 2, 3, 4, 5, 6, 7, 9, 10}

\* The tree of a shape over two leaves: the shapes of TreeAt, a compound
\* with an empty key, and a compound with a key of two words and the key
\* true.
SnbtTreeAt(shape, x, y) ==
    CASE shape <= 7 -> TreeAt(shape, x, y)
      [] shape = 9 -> Obj(<<Entry(<<>>, x), Entry(<<97>>, y)>>)
      [] shape = 10 -> Obj(<<Entry(<<97, 32, 98>>, x), Entry(<<116, 114, 117, 101>>, y)>>)

\* The second argument of stringify: none, the number 2 (the call of the
\* round-trip script), and objects that hold space.
StringifyForms ==
    << NotAnObject("undefined"),
       NotAnObject("number"),
       StringifyOptions(SomeNumber(2)),
       StringifyOptions(SomeString(<<9>>)),
       StringifyOptions(SomeNumber(0)),
       StringifyOptions(SomeBool(TRUE)) >>

\* Texts a caller hands to parse.
SnbtTexts ==
    <<
       <<123, 97, 58, 91, 49, 44, 34, 120, 34, 93, 125>>,   \* {a:[1,"x"]}
       <<123, 97, 58, 49, 44, 125>>,   \* {a:1,}
       <<123, 97, 58, 91, 49, 44, 93, 125>>,   \* {a:[1,]}
       <<123, 97, 58, 91, 66, 59, 49, 98, 44, 93, 125>>,   \* {a:[B;1b,]}
       <<123, 97, 58, 91, 97, 59, 49, 93, 125>>,   \* {a:[a;1]}
       <<123, 97, 58, 91, 66, 59, 49, 98, 44, 50, 98, 93, 125>>,   \* {a:[B;1b,2b]}
       <<123, 97, 58, 91, 73, 59, 49, 44, 50, 93, 125>>,   \* {a:[I;1,2]}
       <<123, 97, 58, 91, 76, 59, 49, 108, 93, 125>>,   \* {a:[L;1l]}
       <<123, 97, 58, 116, 114, 117, 101, 44, 98, 58, 102, 97, 108, 115, 101, 125>>,   \* {a:true,b:false}
       <<123, 32, 97, 32, 58, 32, 91, 32, 49, 32, 44, 32, 50, 32, 93, 32, 125>>,   \* { a : [ 1 , 2 ] }
       <<123, 125>>,   \* {}
       <<123, 97, 58, 49, 125, 120>>,   \* {a:1}x
       <<123, 34, 34, 58, 49, 125>>,   \* {"":1}
       <<123, 97, 58, 91, 91, 49, 93, 44, 91, 34, 120, 34, 93, 93, 125>>,   \* {a:[[1],["x"]]}
       <<123, 97, 58, 91, 98, 44, 99, 93, 125>>,   \* {a:[b,c]}
       <<123, 39, 107, 32, 107, 39, 58, 34, 118, 92, 34, 34, 125>>,   \* {'k k':"v\""}
       <<123, 97, 58, 91, 34, 59, 34, 93, 125>>,   \* {a:[";"]}
       <<123, 97, 58, 91, 34, 120, 34, 93, 125>>,   \* {a:["x"]}
       <<123, 97, 58, 91, 32, 66, 59, 49, 98, 93, 125>>   \* {a:[ B;1b]}
    >>

---------------------------------------------------------------------------
(* Format, parse, encode: the caller formats a tree, parses the text, and  *)
(* writes the tree and the parsed tree under one dialect; or the caller    *)
(* parses a text of its own.                                               *)

SnbtInit ==
    /\ \/ /\ pc = "start"
          /\ text = <<>>
          /\ \E shape \in SnbtShapes : \E i, j \in 1..Len(SnbtLeaves) :
             \E form \in 1..Len(StringifyForms) : \E d \in 1..2 :
                 /\ j = i \/ j <= 2
                 /\ form > 3 => d = 1
                 /\ tree = SnbtTreeAt(shape, SnbtLeaves[i], SnbtLeaves[j])
                 /\ opts = [form |-> form, stringify |-> StringifyForms[form],
                            write |-> WriteDialects[d]]
       \/ /\ pc = "text"
          /\ \E k \in 1..Len(SnbtTexts) : text = SnbtTexts[k]
          /\ tree = NoValue
          /\ opts = [form |-> 1, stringify |-> StringifyForms[1],
                     write |-> WriteDialects[1]]
    /\ data = NoValue
    /\ res = NoValue
    /\ res2 = NoValue
    /\ res3 = NoValue

\* res = stringify(tree, options); text is the string returned
SnbtStringify ==
    /\ pc = "start"
    /\ res' = stringify(tree, opts.stringify)
    /\ text' = res'.text
    /\ pc' = "stringified"
    /\ UNCHANGED <<tree, opts, data, res2, res3>>

\* res2 = parse(text)
SnbtParse ==
    /\ pc \in {"stringified", "text"}
    /\ pc = "stringified" => res.ok
    /\ res2' = parse(Str(text))
    /\ pc' = IF pc = "text" THEN "parsed text" ELSE "parsed"
    /\ UNCHANGED <<tree, opts, data, text, res, res3>>

\* data = write(tree, e) and res3 = write(parsed, e)
SnbtWrite ==
    /\ pc = "parsed"
    /\ res2.ok
    /\ data' = write(tree, opts.write)
    /\ res3' = write(res2.value, opts.write)
    /\ pc' = "written"
    /\ UNCHANGED <<tree, opts, text, res, res2>>

SnbtNext == SnbtStringify \/ SnbtParse \/ SnbtWrite

SpecSnbt == SnbtInit /\ [][SnbtNext]_vars

---------------------------------------------------------------------------
(* Properties of format, parse, encode                                     *)

\* C3 (SNBT round-trip): for a tree that conforms to the data model,
\* stringify with no option succeeds, parse of the text succeeds, and the
\* parsed tree has the same keys in the same order and the same tag id and
\* value at every position.
SnbtRoundTrip ==
    /\ (pc = "stringified" /\ opts.form = 1 /\ Conforms(tree)) => res.ok
    /\ (pc = "parsed" /\ opts.form = 1 /\ Conforms(tree)) =>
           (res2.ok /\ SameTag(res2.value, tree))

\* C4 (binary equality through the textual form): the text of
\* stringify(t, 2), in either form of the call, parses, and the parsed tree
\* written under a dialect gives what the tree written under that dialect
\* gives: the same bytes, or a throw when the tree is rejected.
BinaryEqualityThroughText ==
    /\ (pc = "parsed" /\ opts.form \in {2, 3}) => res2.ok
    /\ (pc = "written" /\ opts.form \in {2, 3}) =>
           (res3.ok = data.ok /\ res3.bytes = data.bytes)

\* C8 (no reader produces a heterogeneous list): in a tree that parse
\* returns, every LIST holds tags of one id.
ParsedListsAreHomogeneous ==
    (pc \in {"parsed", "parsed text"} /\ res2.ok) => ~HasHeterogeneousList(res2.value)

---------------------------------------------------------------------------
(* The envelope constructor (format.ts) and the options write inherits     *)

Constructed(value) == [ok |-> TRUE, err |-> "", value |-> value]
ConstructError(err) == [ok |-> FALSE, err |-> err, value |-> NoValue]

\* new NBTData(data, { name, endian, compression, bedrockLevel })
newNBTData(dataIn, o) ==
    LET Checked(root, name, endian, compression, bedrockLevel) ==
            IF ~IsObject(root)
            THEN ConstructError("TypeError: First parameter must be an object")
            ELSE IF name.k \notin {"string", "null"}
            THEN ConstructError("TypeError: Name option must be a string or null")
            ELSE IF endian \notin {"big", "little"}
            THEN ConstructError("TypeError: Endian option must be a valid endian type")
            ELSE IF compression \notin {"null", "gzip", "deflate"}
            THEN ConstructError("TypeError: Compression option must be a valid compression type")
            ELSE IF bedrockLevel.k \notin {"null", "Int"}
            THEN ConstructError("TypeError: Bedrock Level option must be an Int")
            ELSE Constructed(NBTData(root, name, endian, compression, bedrockLevel))
        Defaulted(root, name, endian, compression, bedrockLevel) ==
            Checked(root,
                    IF name.k = "undefined" THEN SomeString(<<>>) ELSE name,
                    IF endian = "undefined" THEN "big" ELSE endian,
                    IF compression = "undefined" THEN "null" ELSE compression,
                    IF bedrockLevel.k = "undefined" THEN Null ELSE bedrockLevel)
        Field(name) == IF dataIn.js = "NBTData" THEN dataIn.v[name] ELSE Undef
        Name(name) == IF dataIn.js = "NBTData" THEN dataIn.v[name] ELSE "undefined"
    IN Defaulted(Unwrap(dataIn),
                 Inherit(o.name, dataIn, Field("name")),
                 InheritName(o.endian, dataIn, Name("endian")),
                 InheritName(o.compression, dataIn, Name("compression")),
                 Inherit(o.bedrockLevel, dataIn, Field("bedrockLevel")))

\* The names, endians, compressions and levels a caller passes; the first
\* three of each are the values an envelope can hold.
OptionNames == << Null, SomeString(<<>>), SomeString(<<114>>), Undef, SomeNumber(1) >>
OptionEndians == << "big", "little", "undefined" >>
OptionCompressions == << "null", "gzip", "deflate", "undefined", "deflate-raw" >>
OptionLevels == << Null, SomeInt(10), Undef >>

NoWriteOptions == WriteOptions(Undef, "undefined", "undefined", Undef)

\* A caller holds a tree, bare or in an envelope, and options.
EnvelopeInit ==
    /\ pc = "start"
    /\ \E shape \in 1..2 : \E n \in 1..3, e \in 1..2, c \in 1..3, b \in 1..2 :
       \E bare \in BOOLEAN :
           /\ bare => n = 1 /\ e = 1 /\ c = 1 /\ b = 1
           /\ tree = IF bare THEN TreeAt(shape, Leaves[5], Leaves[9])
                     ELSE NBTData(TreeAt(shape, Leaves[5], Leaves[9]), OptionNames[n],
                                  OptionEndians[e], OptionCompressions[c], OptionLevels[b])
    /\ \E n \in 1..Len(OptionNames), e \in 1..Len(OptionEndians),
          c \in 1..Len(OptionCompressions), b \in 1..Len(OptionLevels) :
           opts = WriteOptions(OptionNames[n], OptionEndians[e],
                               OptionCompressions[c], OptionLevels[b])
    /\ text = <<>>
    /\ data = NoValue
    /\ res = NoValue
    /\ res2 = NoValue
    /\ res3 = NoValue

\* res = new NBTData(tree, options)
EnvelopeConstruct ==
    /\ pc = "start"
    /\ res' = newNBTData(tree, opts)
    /\ pc' = "constructed"
    /\ UNCHANGED <<tree, opts, data, text, res2, res3>>

\* data = write(tree, options)
EnvelopeWrite ==
    /\ pc \in {"start", "constructed"}
    /\ data' = write(tree, opts)
    /\ pc' = IF pc = "start" THEN "written" ELSE "both"
    /\ UNCHANGED <<tree, opts, text, res, res2, res3>>

\* res2 = write(res): the constructed envelope written with no options
EnvelopeWriteConstructed ==
    /\ pc = "both"
    /\ res.ok
    /\ res2' = write(res.value, NoWriteOptions)
    /\ pc' = "done"
    /\ UNCHANGED <<tree, opts, data, text, res, res3>>

EnvelopeNext == EnvelopeConstruct \/ EnvelopeWrite \/ EnvelopeWriteConstructed

SpecEnvelope == EnvelopeInit /\ [][EnvelopeNext]_vars

\* The option the claim expects to take effect: the caller's when supplied,
\* else the envelope's, else the default.
Chosen(option, field, default) ==
    IF option.k # "undefined" THEN option
    ELSE IF tree.js = "NBTData" THEN tree.v[field] ELSE default

ChosenName(option, field, default) ==
    IF option # "undefined" THEN option
    ELSE IF tree.js = "NBTData" THEN tree.v[field] ELSE default

ChosenOptions ==
    WriteOptions(Chosen(opts.name, "name", SomeString(<<>>)),
                 ChosenName(opts.endian, "endian", "big"),
                 ChosenName(opts.compression, "compression", "null"),
                 Chosen(opts.bedrockLevel, "bedrockLevel", Null))

\* C11 (option inheritance): the envelope the constructor returns holds, in
\* each of name, endian, compression and bedrockLevel, the caller's option
\* when supplied (null included), else the field of the envelope passed in,
\* else "", big, null and null, around the unchanged tree; write produces
\* the bytes of the bare tree written under those same four options; and
\* writing the constructed envelope with no options gives those bytes too.
OptionInheritance ==
    /\ pc \in {"constructed", "both", "done"} /\ res.ok =>
           SameEnvelope(res.value,
                        NBTData(Unwrap(tree), ChosenOptions.name, ChosenOptions.endian,
                                ChosenOptions.compression, ChosenOptions.bedrockLevel))
    /\ pc \in {"written", "both", "done"} =>
           data = write(Unwrap(tree), ChosenOptions)
    /\ pc = "done" => res2 = data

\* an envelope named "r", little endian, gzip, level 10 was written with a
\* null name and no other option: the name came from the caller and the
\* other three from the envelope
EnvelopeFieldsInherited ==
    /\ pc = "done"
    /\ tree.js = "NBTData"
    /\ tree.v.name.k = "string" /\ tree.v.name.v = <<114>>
    /\ tree.v.endian = "little" /\ tree.v.compression = "gzip"
    /\ tree.v.bedrockLevel.k = "Int"
    /\ opts.name.k = "null" /\ opts.endian = "undefined"
    /\ opts.compression = "undefined" /\ opts.bedrockLevel.k = "undefined"
    /\ data.ok /\ HasPrefix(data.bytes, Magic("gzip"))

---------------------------------------------------------------------------
(* The boolean tokens of SNBT                                              *)

\* every entry of the compound is a boolean
OnlyBooleans(value) ==
    /\ value.js = "Object"
    /\ Len(value.v) > 0
    /\ \A i \in 1..Len(value.v) : value.v[i].t.js = "boolean"

\* the byte the writer puts for the i-th entry of a flat compound of
\* one-letter keys written with no name option: entry i follows the three
\* root bytes and occupies five bytes, the last of them the payload
EntryByte(bytes, i) == bytes[3 + 5 * i]

\* C12 (boolean tokens): parse maps the token true to a tag written as the
\* byte 1 and the token false to a tag written as the byte 0: the text
\* {a:true,b:false} parses to a compound that is written with 1 for a and 0
\* for b, and a compound of booleans that was formatted and parsed back is
\* written as the bytes of the original compound.
BooleanTokens ==
    /\ pc = "parsed text" /\ text = SnbtTexts[9] =>
           /\ res2.ok
           /\ EntryByte(write(res2.value, NoWriteOptions).bytes, 1) = 1
           /\ EntryByte(write(res2.value, NoWriteOptions).bytes, 2) = 0
    /\ pc = "written" /\ OnlyBooleans(tree) /\ opts.write = WriteDialects[1] =>
           /\ res3.ok
           /\ \A i \in 1..Len(tree.v) :
                  EntryByte(res3.bytes, i) = (IF tree.v[i].t.v THEN 1 ELSE 0)

---------------------------------------------------------------------------
(* Separators and brackets of SNBT                                         *)

\* a comma of the text is followed, after optional whitespace, by a closing
\* bracket or brace (the texts of the model hold no comma inside a string)
HasTrailingSeparator(string) ==
    \E i \in 1..Len(string) : \E j \in (i + 1)..Len(string) :
        /\ string[i] = 44
        /\ string[j] \in {93, 125}
        /\ \A k \in (i + 1)..(j - 1) : IsWhitespace(string[k])

\* C13 (trailing separator): parse fails on every text in which a comma is
\* followed, after optional whitespace, directly by a closing bracket or
\* brace.
TrailingSeparatorRejected ==
    pc = "parsed text" /\ HasTrailingSeparator(text) => ~res2.ok

\* the two characters after the '[' that opens the value of a in {a:[...
BracketPrefix(string) == SubSeq(string, 5, 6)

TypedPrefixes == {<<66, 59>>, <<73, 59>>, <<76, 59>>}

\* C14 (typed array or list): the value of a in {a:[... is a typed array
\* exactly when the two characters after '[' are B; I; or L; and in every
\* other case the bracket is read as a LIST: the array type is never
\* rejected, and a list whose first element is the string ";" parses.
ListUnlessTypedArray ==
    pc = "parsed text" /\ HasPrefix(text, <<123, 97, 58, 91>>) /\ Len(text) >= 6 =>
        /\ res2.ok =>
               (res2.value.v[1].t.js \in {"Int8Array", "Int32Array", "BigInt64Array"}
                    <=> BracketPrefix(text) \in TypedPrefixes)
        /\ BracketPrefix(text) \notin TypedPrefixes =>
               res2.err # "Error: Invalid array type"
        /\ BracketPrefix(text) = <<34, 59>> => res2.ok

---------------------------------------------------------------------------
(* The Bedrock level header                                                *)

\* C15 (Bedrock version): a buffer that starts with the header
\* [u32-le v][u32-le N], N the length of the rest, and is read as little
\* endian with the header detected or pinned as present, gives an envelope
\* whose bedrockLevel is the number v.
BedrockVersionReturned ==
    /\ pc \in {"read", "probed"}
    /\ hasBedrockLevelHeader(data, "little")
    /\ opts.bedrockLevel.k = "undefined" \/ Truthy(opts.bedrockLevel)
    /\ res.ok
    /\ res.value.v.endian = "little"
    => /\ res.value.v.bedrockLevel.k = "number"
       /\ res.value.v.bedrockLevel.v = Int32Of(Slice(data, 0, 4), TRUE)

---------------------------------------------------------------------------
(* Calls on one instance.  The fields of an NBTWriter, an SNBTReader and   *)
(* an SNBTWriter outlive a call: each operator below takes the fields the  *)
(* instance holds when the call begins and gives the outcome of the call   *)
(* and the fields it leaves behind.                                        *)

Outcome(result, this) == [result |-> result, this |-> this]

\* the mutation of NBTWriterReset that leaves #byteOffset alone
NBTWriterResetBuffer(this, littleEndian) ==
    [this EXCEPT !.le = littleEndian, !.cap = InitialCapacity]

\* this.#byteOffset = 0; this.#littleEndian = ...; this.#data = new Uint8Array(1024)
NBTWriterReset(this, littleEndian) ==
    [this EXCEPT !.le = littleEndian, !.bytes = <<>>, !.cap = InitialCapacity]

\* NBTWriter.write(data, { name, endian }) on an instance
NBTWriterWriteOn(this, dataIn, nameOpt, endianOpt) ==
    LET Working(fields) ==
            [ok |-> TRUE, err |-> "", le |-> fields.le, bytes |-> fields.bytes,
             cap |-> fields.cap]
        Left(w) ==
            Outcome(IF w.ok THEN Bytes(w.bytes) ELSE BytesError(w.err),
                    [le |-> w.le, bytes |-> w.bytes, cap |-> w.cap])
        Root(w, root) == Left(WriterAllocate(writeCompound(w, root), 0))
        Named(w, name, root) ==
            Root(IF name.k # "null" THEN writeString(w, name.v) ELSE w, root)
        Rejected(err) == Outcome(BytesError(err), this)
        Checked(name, endian, root) ==
            IF ~IsObject(root) THEN Rejected("TypeError: First parameter must be an object")
            ELSE IF name.k \notin {"string", "null"}
            THEN Rejected("TypeError: Name option must be a string or null")
            ELSE IF endian \notin {"big", "little"}
            THEN Rejected("TypeError: Endian option must be a valid endian type")
            ELSE Named(writeTagType(Working(NBTWriterReset(this, endian = "little")),
                                    TAG.COMPOUND),
                       name, root)
        Defaulted(name, endian) ==
            Checked(IF name.k = "undefined" THEN SomeString(<<>>) ELSE name,
                    IF endian = "undefined" THEN "big" ELSE endian,
                    Unwrap(dataIn))
    IN Defaulted(Inherit(nameOpt, dataIn,
                         IF dataIn.js = "NBTData" THEN dataIn.v.name ELSE Undef),
                 InheritName(endianOpt, dataIn,
                             IF dataIn.js = "NBTData" THEN dataIn.v.endian ELSE "undefined"))

\* this.#data = data; this.#byteOffset = 0
SNBTReaderReset(this, string) == [this EXCEPT !.data = string, !.off = 0]

\* SNBTReader.read(data) on an instance
SNBTReaderReadOn(this, string) ==
    LET Working(fields) ==
            [ok |-> TRUE, err |-> "", data |-> fields.data, off |-> fields.off]
        Left(tag) ==
            Outcome(SNBTReaderReadTag(tag),
                    [data |-> tag.rd.data,
                     off |-> IF tag.rd.ok THEN skipWhitespace(tag.rd).off ELSE tag.rd.off])
    IN IF string.js # "string"
       THEN Outcome(ParseError("TypeError: First parameter must be a string"), this)
       ELSE Left(readCompoundTag(Working(SNBTReaderReset(this, Chars(string)))))

\* this.#space = ...; this.#level = 1
SNBTWriterReset(this, space) ==
    [this EXCEPT !.space = IF space.k = "number" THEN Repeat(<<32>>, space.v)
                           ELSE space.v,
                 !.level = 1]

\* SNBTWriter.write(data, { space }) on an instance
SNBTWriterWriteOn(this, dataIn, space) ==
    LET Left(fields) ==
            Outcome(Text(snbtWriteCompound(sanitizeCompound(Unwrap(dataIn)),
                                           fields.space, fields.level)),
                    fields)
    IN IF ~IsObject(Unwrap(dataIn))
       THEN Outcome(TextError("TypeError: First parameter must be an object"), this)
       ELSE IF space.k \notin {"string", "number"}
       THEN Outcome(TextError("TypeError: Space option must be a string or number"), this)
       ELSE IF space.k = "number" /\ space.v < 0
       THEN Outcome(TextError("RangeError: Invalid count value"), this)
       ELSE Left(SNBTWriterReset(this, space))

---------------------------------------------------------------------------
(* Calls in flight.  write and read are async: a call runs to its first    *)
(* await, and other calls run before it resumes.  The operators below are  *)
(* the segments of one call between its await points.                      *)

\* write up to `await compress(result, compression)`: the bytes before the
\* compression and the scheme awaited, or the settled outcome
writeStart(dataIn, o) ==
    LET Segment(compression, plain) ==
            [await |-> compression \in Compressions /\ plain.ok,
             result |-> plain, compression |-> compression]
        Uncompressed(compression) ==
            Segment(compression,
                    write(dataIn, [o EXCEPT !.compression =
                                       IF compression \in Compressions THEN "null"
                                       ELSE compression]))
    IN Uncompressed(InheritName(o.compression, dataIn,
                                IF dataIn.js = "NBTData" THEN dataIn.v.compression
                                ELSE "undefined"))

\* write from the await on
writeResume(local) == Bytes(compress(local.result.bytes, local.compression))

\* read under a pinned dialect up to `data = await decompress(data, compression)`
readStart(bytes, options) ==
    [await |-> options.compression # "null", bytes |-> bytes, options |-> options,
     result |-> IF options.compression # "null" THEN NoValue ELSE read(bytes, options)]

\* read from that await to the await of readRoot: the reader and the
\* options readRoot holds, or the error of the decompression
readInflate(local) ==
    LET o == local.options
    IN IF ~decompress(local.bytes, o.compression).ok
       THEN [await |-> FALSE,
             result |-> ReadError(decompress(local.bytes, o.compression).err, NoValue, <<>>)]
       ELSE [await |-> TRUE,
             result |-> NoValue,
             reader |-> NewReader(local.bytes, o.endian # "big", o.endian = "little-varint"),
             o |-> [rootName |-> o.rootName, endian |-> o.endian,
                    compression |-> o.compression,
                    bedrockLevel |-> IF o.bedrockLevel.k = "undefined"
                                     THEN SomeBool(hasBedrockLevelHeader(local.bytes, o.endian))
                                     ELSE o.bedrockLevel,
                    strict |-> SomeBool(IF o.strict.k = "undefined" THEN TRUE
                                        ELSE o.strict.v)]]

\* readRoot from its await on
readResume(local) ==
    IF ~decompress(local.reader.data, local.o.compression).ok
    THEN ReadError(decompress(local.reader.data, local.o.compression).err, NoValue,
                   Tried(local.o))
    ELSE readRootHeader(local.o,
                        [local.reader EXCEPT
                             !.data = decompress(local.reader.data, local.o.compression).bytes])

---------------------------------------------------------------------------
(* A program that makes calls one after another on three long-lived        *)
(* instances, and a program that has two async calls in flight.            *)

Input(dataIn, o) == [data |-> dataIn, o |-> o]

\* what NBTWriter.write is called with: the second input throws part-way,
\* at the second element of the list; the fourth is rejected on entry
WriterInputs ==
    << Input(TreeAt(1, Leaves[5], Leaves[5]), WriteDialects[1]),
       Input(TreeAt(3, Leaves[5], Leaves[9]), WriteDialects[2]),
       Input(NBTData(TreeAt(2, Leaves[4], Leaves[9]), SomeString(<<114>>), "little",
                     "null", Null),
             WriteDialects[1]),
       Input(Leaves[9], WriteDialects[1]) >>

\* what SNBTReader.read is called with: texts that parse, texts that fail
\* part-way, and a number
ParserInputs ==
    << Str(SnbtTexts[6]), Str(SnbtTexts[1]), Str(SnbtTexts[5]), Str(SnbtTexts[12]),
       Str(SnbtTexts[10]), Leaves[5] >>

\* what SNBTWriter.write is called with
FormatterInputs ==
    << Input(TreeAt(4, Leaves[5], Leaves[9]), SomeNumber(2)),
       Input(TreeAt(1, Leaves[9], Leaves[9]), SomeString(<<>>)),
       Input(TreeAt(5, Leaves[3], Leaves[3]), SomeString(<<9>>)),
       Input(TreeAt(1, Leaves[9], Leaves[9]), SomeNumber(-1)) >>

\* what the async write and read are called with: trees under the write
\* dialects, and buffers under pinned dialects, compressed or not, the last
\* one pinned to a scheme the buffer is not in
CallInputs ==
    << [kind |-> "write", data |-> TreeAt(1, Leaves[5], Leaves[5]), o |-> WriteDialects[1]],
       [kind |-> "write", data |-> TreeAt(2, Leaves[4], Leaves[9]), o |-> WriteDialects[4]],
       [kind |-> "write", data |-> TreeAt(1, Leaves[3], Leaves[3]), o |-> WriteDialects[6]],
       [kind |-> "write", data |-> TreeAt(3, Leaves[5], Leaves[9]), o |-> WriteDialects[4]],
       [kind |-> "read", data |-> <<31, 139, 10, 0, 0, 0>>,
        o |-> ReadOptions(SomeBool(TRUE), "big", "gzip", Undef, Undef)],
       [kind |-> "read", data |-> <<120, 156, 10, 0>>,
        o |-> ReadOptions(SomeBool(FALSE), "big", "deflate", Null, Undef)],
       [kind |-> "read", data |-> <<10, 0, 0, 0>>,
        o |-> ReadOptions(SomeBool(TRUE), "big", "null", Null, Undef)],
       [kind |-> "read", data |-> <<10, 0, 0, 0>>,
        o |-> ReadOptions(SomeBool(TRUE), "big", "gzip", Null, Undef)] >>

Calls == {1, 2}

NoCall == [kind |-> "none", input |-> 0]

\* tree holds the fields of the three instances; res2 the last call made on
\* an instance (its kind, the index of its input, the fields the instance
\* held when it began, its outcome) and res3 the kind and success of the
\* call before it.  pc, opts, data and res hold, for each of the two async
\* calls, its position, its input, its local variables and its outcome.
CallsInit ==
    /\ tree = [writer |-> [le |-> FALSE, bytes |-> <<>>, cap |-> 0],
               reader |-> [data |-> <<>>, off |-> 0],
               formatter |-> [space |-> <<>>, level |-> 0]]
    /\ res2 = [kind |-> "none", input |-> 0, ok |-> TRUE, result |-> NoValue]
    /\ res3 = [kind |-> "none", ok |-> TRUE]
    /\ text = <<>>
    /\ \E inflight \in BOOLEAN :
           pc = IF inflight THEN <<"idle", "idle">> ELSE <<"instances", "instances">>
    /\ opts = <<NoCall, NoCall>>
    /\ data = <<NoValue, NoValue>>
    /\ res = <<NoValue, NoValue>>

Called(kind, i, out) ==
    /\ res2' = [kind |-> kind, input |-> i, ok |-> out.result.ok, result |-> out.result]
    /\ res3' = [kind |-> res2.kind, ok |-> res2.ok]
    /\ tree' = [tree EXCEPT ![kind] = out.this]
    /\ UNCHANGED <<pc, opts, data, text, res>>

\* writer.write(data, options) on the long-lived NBTWriter
InstanceWrite ==
    /\ pc[1] = "instances"
    /\ \E i \in 1..Len(WriterInputs) :
           Called("writer", i,
                  NBTWriterWriteOn(tree.writer, WriterInputs[i].data,
                                   WriterInputs[i].o.name, WriterInputs[i].o.endian))

\* reader.read(text) on the long-lived SNBTReader
InstanceParse ==
    /\ pc[1] = "instances"
    /\ \E i \in 1..Len(ParserInputs) :
           Called("reader", i, SNBTReaderReadOn(tree.reader, ParserInputs[i]))

\* formatter.write(data, { space }) on the long-lived SNBTWriter
InstanceStringify ==
    /\ pc[1] = "instances"
    /\ \E i \in 1..Len(FormatterInputs) :
           Called("formatter", i,
                  SNBTWriterWriteOn(tree.formatter, FormatterInputs[i].data,
                                    FormatterInputs[i].o))

Settle(p, position, i, local, result) ==
    /\ pc' = [pc EXCEPT ![p] = position]
    /\ opts' = [opts EXCEPT ![p] = [kind |-> CallInputs[i].kind, input |-> i]]
    /\ data' = [data EXCEPT ![p] = local]
    /\ res' = [res EXCEPT ![p] = result]
    /\ UNCHANGED <<tree, text, res2, res3>>

\* call p begins write(data, options) and runs to its await
CallWrite(p) ==
    /\ pc[p] = "idle"
    /\ \E i \in 1..Len(CallInputs) :
           /\ CallInputs[i].kind = "write"
           /\ LET local == writeStart(CallInputs[i].data, CallInputs[i].o)
              IN Settle(p, IF local.await THEN "compress" ELSE "done", i, local,
                        IF local.await THEN NoValue ELSE local.result)

\* the compression call p awaits has finished
CallWriteResume(p) ==
    /\ pc[p] = "compress"
    /\ Settle(p, "done", opts[p].input, NoValue, writeResume(data[p]))

\* call p begins read(data, options) and runs to its await
CallRead(p) ==
    /\ pc[p] = "idle"
    /\ \E i \in 1..Len(CallInputs) :
           /\ CallInputs[i].kind = "read"
           /\ LET local == readStart(CallInputs[i].data, CallInputs[i].o)
              IN Settle(p, IF local.await THEN "decompress" ELSE "done", i, local,
                        local.result)

\* the decompression call p awaits in read has finished
CallReadInflate(p) ==
    /\ pc[p] = "decompress"
    /\ LET local == readInflate(data[p])
       IN Settle(p, IF local.await THEN "inflate" ELSE "done", opts[p].input, local,
                 local.result)

\* the decompression call p awaits in readRoot has finished
CallReadResume(p) ==
    /\ pc[p] = "inflate"
    /\ Settle(p, "done", opts[p].input, NoValue, readResume(data[p]))

CallsNext ==
    \/ InstanceWrite
    \/ InstanceParse
    \/ InstanceStringify
    \/ \E p \in Calls : CallWrite(p)
    \/ \E p \in Calls : CallWriteResume(p)
    \/ \E p \in Calls : CallRead(p)
    \/ \E p \in Calls : CallReadInflate(p)
    \/ \E p \in Calls : CallReadResume(p)

SpecCalls == CallsInit /\ [][CallsNext]_vars

\* the outcome of the last call on an instance, had it been made on a new
\* instance
Alone ==
    CASE res2.kind = "writer" ->
             NBTWriterWrite(WriterInputs[res2.input].data, WriterInputs[res2.input].o.name,
                            WriterInputs[res2.input].o.endian)
      [] res2.kind = "reader" -> SNBTReaderRead(ParserInputs[res2.input])
      [] res2.kind = "formatter" ->
             SNBTWriterWrite(FormatterInputs[res2.input].data, FormatterInputs[res2.input].o)

\* the outcome of the async call p, had nothing run between its segments
Uninterrupted(p) ==
    IF opts[p].kind = "write"
    THEN write(CallInputs[opts[p].input].data, CallInputs[opts[p].input].o)
    ELSE read(CallInputs[opts[p].input].data, CallInputs[opts[p].input].o)

\* C16 (isolation): the outcome of a call on a long-lived NBTWriter,
\* SNBTReader or SNBTWriter is the outcome of the same call on a new
\* instance, whatever calls the instance served before, those that threw
\* part-way included; and the outcome of an async write or read is the
\* outcome of the call run without interruption, whatever the other call in
\* flight did between its segments.
Isolation ==
    /\ res2.kind # "none" => res2.result = Alone
    /\ \A p \in Calls : pc[p] = "done" => res[p] = Uninterrupted(p)

\* the NBTWriter wrote a tree in full right after a call that threw with
\* bytes already written, while the SNBTReader sits in the middle of a text
\* it gave up on
WriterReusedAfterThrow ==
    /\ res2.kind = "writer" /\ res2.ok
    /\ res3.kind = "writer" /\ ~res3.ok
    /\ tree.reader.off > 0 /\ tree.reader.off < Len(tree.reader.data)

\* both async calls awaited at the same time and both have settled, one a
\* compressed write and one a compressed read
CallsInterleaved ==
    /\ pc = <<"done", "done">>
    /\ opts[1].kind = "write" /\ opts[2].kind = "read"
    /\ res[1].ok /\ res[2].ok
    /\ HasPrefix(res[1].bytes, Magic("gzip"))
    /\ CallInputs[opts[2].input].o.compression = "gzip"

---------------------------------------------------------------------------
(* The framing of a COMPOUND                                               *)

\* the sum of a sequence of numbers
RECURSIVE Sum(_)
Sum(numbers) == IF numbers = <<>> THEN 0 ELSE Head(numbers) + Sum(Tail(numbers))

\* the number of compounds in a value
RECURSIVE Compounds(_)
Compounds(value) ==
    IF value.js = "Object"
    THEN 1 + Sum([i \in 1..Len(value.v) |-> Compounds(value.v[i].t)])
    ELSE IF value.js = "Array"
    THEN Sum([i \in 1..Len(value.v) |-> Compounds(value.v[i])])
    ELSE 0

\* The entries of the root compound in the order the caller inserted them.
\* The tree with the keys 1 and 0 was built by setting 1 first, then 0;
\* every other tree of the model was built in the order of its entries.
InsertedEntries(value) ==
    IF Len(value.v) = 2 /\ value.v[1].k = <<48>> /\ value.v[2].k = <<49>>
    THEN Reverse(value.v)
    ELSE value.v

\* C17 (compound framing): the bytes of a tree are those of one (tag id,
\* key, payload) triple per entry of each compound, in the order the
\* entries were inserted, followed by one END byte: they are the bytes of
\* the inserted entries framed in their order, an entry that is not a tag
\* adds nothing to them, and the tree read back from them (one END byte
\* consumed per compound) holds as many compounds as the tree written.
CompoundFraming ==
    /\ pc = "written" /\ res.ok /\ tree.js = "Object" =>
           /\ res.bytes = write(Obj(InsertedEntries(tree)), opts).bytes
           /\ res.bytes = write(Obj(Append(tree.v, Entry(<<122>>, Undefined))), opts).bytes
    /\ pc = "read" /\ res2.ok /\ OnlyTags(tree) =>
           Compounds(res2.value.v.data) = Compounds(tree)

---------------------------------------------------------------------------
(* The probe: read with no dialect pinned                                  *)

\* the compression schemes the probe is to try on a buffer, in order
CompressionCandidates(bytes) ==
    IF HasPrefix(bytes, <<31, 139>>) THEN <<"gzip">>
    ELSE IF HasPrefix(bytes, <<120>>) THEN <<"deflate">>
    ELSE <<"null", "deflate-raw">>

EndianCandidates == <<"big", "little", "little-varint">>

\* the candidate dialects of a buffer in lexicographic order of
\* (compression, endian, root name): six for each compression scheme
Candidates(bytes) ==
    [i \in 1..(6 * Len(CompressionCandidates(bytes))) |->
        ReadOptions(SomeBool((i - 1) % 2 = 0),
                    EndianCandidates[(((i - 1) \div 2) % 3) + 1],
                    CompressionCandidates(bytes)[((i - 1) \div 6) + 1],
                    Undef, Undef)]

\* the place of a dialect in that order, 0 when it is not a candidate
Rank(candidates, dialect) ==
    LET places == {i \in 1..Len(candidates) :
                       /\ candidates[i].compression = dialect.compression
                       /\ candidates[i].endian = dialect.endian
                       /\ dialect.rootName.k = "boolean"
                       /\ candidates[i].rootName.v = dialect.rootName.v}
    IN IF places = {} THEN 0 ELSE CHOOSE i \in places : TRUE

\* the places of the candidates that decode the buffer when pinned
Decodable(bytes, candidates) ==
    {i \in 1..Len(candidates) : read(bytes, candidates[i]).ok}

Earliest(places) == CHOOSE i \in places : \A j \in places : i <= j

\* the probe of the buffer ended as the claim has it: it failed when no
\* candidate decodes, and else returned what the earliest one returns
EarliestReturned(bytes, result, decodable, candidates) ==
    IF decodable = {} THEN ~result.ok
    ELSE /\ result.ok
         /\ SameEnvelope(result.value, read(bytes, candidates[Earliest(decodable)]).value)

\* C18 (probe search order): with no option pinned, the dialects read hands
\* to readRoot are candidates of the buffer (gzip alone after 1F 8B, deflate
\* alone after 78, else none and raw-deflate; big, little, little-varint;
\* with and without root name) and follow one another in lexicographic
\* order of (compression, endian, root name); and read returns what the
\* earliest candidate that decodes returns.
ProbeSearchOrder ==
    pc = "probed" /\ opts.compression = "undefined" =>
        /\ \A i \in 1..Len(res.tried) : Rank(Candidates(data), res.tried[i]) > 0
        /\ \A i \in 1..(Len(res.tried) - 1) :
               Rank(Candidates(data), res.tried[i]) < Rank(Candidates(data), res.tried[i + 1])
        /\ EarliestReturned(data, res, Decodable(data, Candidates(data)), Candidates(data))

\* a buffer that two candidates decode was probed, and the one returned was
\* not the first one tried
EarlierCandidateWon ==
    /\ pc = "probed"
    /\ opts.compression = "undefined"
    /\ res.ok
    /\ Len(res.tried) > 2
    /\ Cardinality(Decodable(data, Candidates(data))) > 1

\* The attempts of a read: the calls of readRoot it made.
Attempts(result) == Len(result.tried)

\* the compression is known before the first attempt: pinned by the
\* caller, or shown by the magic bytes of the buffer
CompressionKnown ==
    \/ opts.compression # "undefined"
    \/ HasPrefix(data, <<31, 139>>)
    \/ HasPrefix(data, <<120>>)

\* C19 (the probe is bounded): a read that leaves endian and root name
\* unspecified calls readRoot at most 12 times before it returns or throws,
\* and at most 6 times when the compression is pinned or shown by the
\* magic bytes.
ProbeBounded ==
    pc = "probed" =>
        /\ Attempts(res) <= 12
        /\ CompressionKnown => Attempts(res) <= 6

\* a buffer of no dialect was probed with nothing pinned: readRoot was
\* called 12 times and read threw
TwelveAttempts ==
    /\ pc = "probed"
    /\ opts.compression = "undefined"
    /\ ~res.ok
    /\ Attempts(res) = 12

\* the first candidate on each axis: the first compression candidate, big
\* endian, root name present, under the caller's compression when pinned
FirstCandidate ==
    ReadOptions(SomeBool(TRUE), "big",
                IF opts.compression # "undefined" THEN opts.compression
                ELSE CompressionCandidates(data)[1],
                Undef, Undef)

\* C20 (the probe reports the first failure): when a read that leaves
\* endian and root name unspecified throws, the error is the one the first
\* candidate raises (first compression candidate, big endian, root name
\* present); and a read under a pinned dialect calls readRoot once at most.
ProbeReportsFirstFailure ==
    /\ pc = "probed" /\ ~res.ok => res.err = read(data, FirstCandidate).err
    /\ pc = "read" => Attempts(res) <= 1

---------------------------------------------------------------------------
(* The Bedrock level header: a caller reads buffers that begin with a      *)
(* version word and a length word, the length right or wrong, bare or      *)
(* compressed, under every endian, with the header pinned or left to       *)
(* detection.                                                              *)

\* little-endian payloads: {} named "", {} without name, {a: 5b} named ""
LevelPayloads ==
    << <<10, 0, 0, 0>>, <<10, 0>>, <<10, 0, 0, 1, 1, 0, 97, 5, 0>> >>

\* the versions and the errors of the length word the buffers carry
LevelVersions == {8, 10}
LengthErrors == {0 - 1, 0, 1}

\* [u32-le version][u32-le length][payload]
LevelBuffer(version, length, payload) ==
    Int32Bytes(version, TRUE) \o Int32Bytes(length, TRUE) \o payload

\* the bedrockLevel options a caller passes
LevelOptions == << Undef, SomeBool(TRUE), SomeBool(FALSE), Null, SomeNumber(10) >>

LevelInit ==
    /\ pc = "start"
    /\ \E p \in 1..Len(LevelPayloads) : \E v \in LevelVersions : \E e \in LengthErrors :
       \E headed \in BOOLEAN : \E c \in {"null", "gzip"} :
           /\ ~headed => v = 10 /\ e = 0
           /\ text = IF headed
                     THEN LevelBuffer(v, Len(LevelPayloads[p]) + e, LevelPayloads[p])
                     ELSE LevelPayloads[p]
           /\ data = IF c = "null" THEN text ELSE compress(text, c)
           /\ \E endian \in Endians : \E named \in BOOLEAN :
              \E b \in 1..Len(LevelOptions) :
                  opts = ReadOptions(SomeBool(named), endian, c, LevelOptions[b], Undef)
    /\ tree = NoValue
    /\ res = NoValue
    /\ res2 = NoValue
    /\ res3 = NoValue

\* res = read(data, options)
LevelRead ==
    /\ pc = "start"
    /\ res' = read(data, opts)
    /\ pc' = "read"
    /\ UNCHANGED <<tree, opts, data, text, res2, res3>>

LevelNext == LevelRead

SpecLevel == LevelInit /\ [][LevelNext]_vars

\* the unsigned 32-bit little-endian word at an offset of small buffers
Uint32At(bytes, offset) ==
    bytes[offset + 1] + 256 * bytes[offset + 2] + 65536 * bytes[offset + 3]
        + 16777216 * bytes[offset + 4]

\* the buffer that is decoded carries the header: text is that buffer, the
\* payload after decompression
HeaderPresent ==
    /\ Len(text) >= 8
    /\ Uint32At(text, 4) = Len(text) - 8

\* C21 (Bedrock header detection): when bedrockLevel is unspecified, the
\* header is treated as present by readRoot exactly when the endian is
\* little, the buffer that is decoded has 8 bytes or more, and the unsigned
\* 32-bit little-endian word at its offset 4 is its length minus 8.
HeaderDetection ==
    pc = "read" /\ opts.bedrockLevel.k = "undefined" /\ Len(res.tried) > 0 =>
        (Truthy(res.tried[1].bedrockLevel) <=> (opts.endian = "little" /\ HeaderPresent))

\* C22 (Bedrock length field): when the header is pinned as present and
\* the read succeeds, the length word of the buffer that is decoded is its
\* length minus 8.
LengthFieldValidated ==
    pc = "read" /\ Truthy(opts.bedrockLevel) /\ opts.endian = "little" /\ res.ok =>
        HeaderPresent

---------------------------------------------------------------------------
(* The reader's cursor.  A reader is built over a buffer and payloads are  *)
(* read from it one after another, as #readCompound and #readList do; res  *)
(* is the reader after the last payload, res2 the reader before it and     *)
(* res3 the type that was read.                                            *)

\* END, BYTE, LIST, a continuation byte and the byte of all ones
CursorAlphabet == {0, 1, 9, 128, 255}

CursorLengths == 0..3

\* further buffers: the varints 2 and 3, lists of no elements, a compound
\* entry that is a BYTE_ARRAY of length -3 and of length -7, varints of
\* five, six, ten and eleven bytes, the largest encodings of both widths, a
\* negative length in front of payload bytes
LongBuffers ==
    << <<2>>, <<3>>, <<129, 128, 128, 128, 8>>,
       <<0, 0, 0, 0, 0>>, <<255, 0, 0, 0, 0>>,
       <<7, 0, 5>>, <<7, 0, 0, 255, 255, 255, 249>>,
       <<128, 128, 128, 128, 1>>,
       <<128, 128, 128, 128, 128, 0>>,
       <<254, 255, 255, 255, 15>>,
       <<255, 255, 255, 255, 15>>,
       <<128, 128, 128, 128, 128, 128, 128, 128, 128, 1>>,
       <<128, 128, 128, 128, 128, 128, 128, 128, 128, 128, 0>>,
       <<254, 255, 255, 255, 255, 255, 255, 255, 255, 1>>,
       <<255, 255, 255, 255, 255, 255, 255, 255, 255, 1>>,
       <<255, 255, 255, 247, 1, 1, 1, 1>>,
       <<247, 255, 255, 255, 1, 1, 1, 1>>,
       <<0, 0, 0, 1, 9, 9, 9, 9>>,
       <<1, 0, 0, 0, 9, 9, 9, 9>> >>

CursorBuffers ==
    UNION {[1..n -> CursorAlphabet] : n \in CursorLengths}
        \cup {LongBuffers[i] : i \in DOMAIN LongBuffers}

\* the readers of the three dialects: big, little, little-varint
CursorDialects == << <<FALSE, FALSE>>, <<TRUE, FALSE>>, <<TRUE, TRUE>> >>

CursorInit ==
    /\ pc = "start"
    /\ data \in CursorBuffers
    /\ \E d \in DOMAIN CursorDialects :
           res = NewReader(data, CursorDialects[d][1], CursorDialects[d][2])
    /\ tree = NoValue
    /\ opts = NoValue
    /\ text = NoValue
    /\ res2 = NoValue
    /\ res3 = 0

\* the value of the last payload read is kept in tree
CursorStep(type, f) ==
    /\ res' = f.rd
    /\ tree' = f.v
    /\ res2' = res
    /\ res3' = type

\* the count of payloads starts anew with every payload the caller reads
CursorRead ==
    /\ pc \in {"start", "read"}
    /\ res.ok
    /\ \E type \in 0..12 : CursorStep(type, readTag([res EXCEPT !.steps = 0], type))
    /\ pc' = "read"
    /\ UNCHANGED <<opts, data, text>>

\* the endian option a reader's two flags come from
EndianOf(rd) == IF rd.varint THEN "little-varint" ELSE IF rd.le THEN "little" ELSE "big"

\* readRoot on the fresh reader, with nothing to decompress and no level
\* header; its outcome is kept in tree
CursorReadRoot ==
    /\ pc = "start"
    /\ \E named \in BOOLEAN :
           tree' = readRoot(res, SomeBool(named), EndianOf(res), "null",
                            SomeBool(FALSE), FALSE)
    /\ pc' = "root"
    /\ UNCHANGED <<opts, data, text, res, res2, res3>>

CursorNext == CursorRead \/ CursorReadRoot

SpecCursor == CursorInit /\ [][CursorNext]_vars

\* C23 (cursor stays inside the buffer): after every payload read, on every
\* buffer and in every dialect, the cursor is at least 0 and at most the
\* length of the buffer.
CursorInBounds ==
    pc = "read" => 0 <= res.off /\ res.off <= Len(res.data)

\* the bytes the last payload read consumed
Consumed == res.off - res2.off

\* C24 (varint overflow): in the little-varint dialect no INT is returned
\* from a varint of more than 5 bytes and no LONG from a varint of more than
\* 10 bytes; a longer varint fails with the varint overflow error.
VarintOverflow ==
    pc = "read" /\ res2.varint /\ res.ok =>
        /\ (res3 = TAG.INT => Consumed <= 5)
        /\ (res3 = TAG.LONG => Consumed <= 10)

\* the bytes of the last payload read
ConsumedBytes == SubSeq(data, res2.off + 1, res.off)

\* the unsigned value a varint's bytes assemble, as bits, lowest first
VarintBits(bytes) == Flatten([i \in 1..Len(bytes) |-> Low7(bytes[i] % 128)])

BitOf(bits, i) == IF i <= Len(bits) THEN bits[i] ELSE 0

\* the assembled value is below 2^width
FitsWidth(bits, width) == \A i \in 1..Len(bits) : i > width => bits[i] = 0

\* bit i of (n >>> 1) XOR -(n AND 1)
ZigZagBit(bits, i) ==
    IF BitOf(bits, 1) = 1 THEN 1 - BitOf(bits, i + 1) ELSE BitOf(bits, i + 1)

\* (n >>> 1) XOR -(n AND 1) as a signed 32-bit integer
ZigZagInt(bits) == FromBits([i \in 1..32 |-> ZigZagBit(bits, i)])

\* the same in 64 bits, as big-endian two's-complement bytes
ZigZagLong(bits) ==
    [j \in 1..8 |->
        ZigZagBit(bits, (8 - j) * 8 + 1) + 2 * ZigZagBit(bits, (8 - j) * 8 + 2)
        + 4 * ZigZagBit(bits, (8 - j) * 8 + 3) + 8 * ZigZagBit(bits, (8 - j) * 8 + 4)
        + 16 * ZigZagBit(bits, (8 - j) * 8 + 5) + 32 * ZigZagBit(bits, (8 - j) * 8 + 6)
        + 64 * ZigZagBit(bits, (8 - j) * 8 + 7) + 128 * ZigZagBit(bits, (8 - j) * 8 + 8)]

DecodesAs(bits) ==
    /\ (res3 = TAG.INT /\ Len(bits) <= 35 /\ FitsWidth(bits, 32) => tree.v = ZigZagInt(bits))
    /\ (res3 = TAG.LONG /\ FitsWidth(bits, 64) => tree.v = ZigZagLong(bits))

\* the values the claim names: 0, 1, 2, 3 and the two largest encodings
ZigZagExamples ==
    << <<<<0>>, 0>>, <<<<1>>, 0 - 1>>, <<<<2>>, 1>>, <<<<3>>, 0 - 2>>,
       <<<<254, 255, 255, 255, 15>>, 2147483647>>,
       <<<<255, 255, 255, 255, 15>>, MinInt32>> >>

\* C25 (zig-zag decoding): in the little-varint dialect the INT returned for
\* an assembled unsigned 32-bit value n is (n >>> 1) XOR -(n AND 1) as a
\* signed 32-bit integer, and the LONG returned for an assembled unsigned
\* 64-bit value is the same in 64 bits; 0, 1, 2, 3 decode to 0, -1, 1, -2
\* and the two largest encodings to the maximum and the minimum.
ZigZagDecoding ==
    pc = "read" /\ res2.varint /\ res.ok /\ res3 \in {TAG.INT, TAG.LONG} =>
        /\ DecodesAs(VarintBits(ConsumedBytes))
        /\ \A e \in DOMAIN ZigZagExamples :
               res3 = TAG.INT /\ res2.off = 0 /\ data = ZigZagExamples[e][1]
                   => tree.v = ZigZagExamples[e][2]

\* the largest encoding of an INT has been decoded to the minimum
LargestDecoded ==
    /\ pc = "read" /\ res2.varint /\ res.ok /\ res2.off = 0
    /\ res3 = TAG.INT /\ data = <<255, 255, 255, 255, 15>> /\ tree.v = MinInt32

\* the four bytes at the cursor before the last payload read, as a signed
\* little-endian 32-bit integer
FixedLengthPrefix == Int32Of(SubSeq(data, res2.off + 1, res2.off + 4), TRUE)

\* C26 (which fields are varints): in the little-varint dialect the length
\* prefix of a BYTE_ARRAY, INT_ARRAY or LONG_ARRAY is a fixed signed 32-bit
\* integer of 4 bytes: an array that was read had 4 bytes in front of it
\* and has as many elements as they say.
ArrayLengthFixed ==
    pc = "read" /\ res2.varint /\ res.ok
        /\ res3 \in {TAG.BYTE_ARRAY, TAG.INT_ARRAY, TAG.LONG_ARRAY} =>
            /\ Len(data) - res2.off >= 4
            /\ Len(tree.v) = FixedLengthPrefix

\* the byte at the cursor before the last payload read: the element type of
\* a LIST, the type of the first entry of a COMPOUND
TypeByte == data[res2.off + 1]

\* the length of the LIST that was read, as the reader reads it
ListLength == readIntValue(Advance(res2, 1))

ListTypeChecked(length) ==
    /\ (~isTagType(TypeByte) => ~res.ok /\ res.err = UnsupportedTagError)
    /\ (TypeByte = TAG.END /\ length.rd.ok /\ length.v > 0
            => ~res.ok /\ res.err = UnexpectedEndError)
    /\ (TypeByte = TAG.END /\ length.rd.ok /\ length.v = 0
            => res.ok /\ tree.js = "Array" /\ tree.v = <<>>)

CompoundTypeChecked ==
    /\ (~isTagType(TypeByte) => ~res.ok /\ res.err = UnsupportedTagError)
    /\ (TypeByte = TAG.END => res.ok /\ Consumed = 1 /\ tree.js = "Object")

---------------------------------------------------------------------------
(* The writer's buffer.  Here #data is kept whole, with its capacity, next *)
(* to #byteOffset, and the write operations of NBTWriter act on it one     *)
(* after another; res is the buffer after the last operation, res2 the     *)
(* buffer before it, text the bytes handed to the operations so far and    *)
(* tree the output of write once it has returned.                          *)

MaxWrites == 3   \* write operations in one write

\* (a function over 1..n is made a tuple by \o)
Zeros(n) == [i \in 1..n |-> 0] \o <<>>

\* this.#byteOffset = 0; this.#data = new Uint8Array(1024)
NewBuffer == [data |-> Zeros(InitialCapacity), byteOffset |-> 0]

\* data.fill(0, start, end)
Fill0(bytes, start, end) ==
    [i \in 1..Len(bytes) |-> IF i > start /\ i <= end THEN 0 ELSE bytes[i]] \o <<>>

\* data.set(source, offset)
SetAt(bytes, source, offset) ==
    [i \in 1..Len(bytes) |->
        IF i > offset /\ i <= offset + Len(source) THEN source[i - offset] ELSE bytes[i]]
    \o <<>>

\* #allocate with a new array that is left empty
BufferAllocateFresh(b, byteLength) ==
    IF Len(b.data) >= b.byteOffset + byteLength THEN b
    ELSE [b EXCEPT !.data = Zeros(Grow(Len(b.data), b.byteOffset + byteLength))]

\* #allocate on the buffer itself
BufferAllocate(b, byteLength) ==
    LET required == b.byteOffset + byteLength
        Filled(grown) ==
            IF b.byteOffset > Len(b.data) THEN Fill0(grown, byteLength, b.byteOffset)
            ELSE grown
    IN IF Len(b.data) >= required THEN b
       ELSE [b EXCEPT !.data =
                Filled(SetAt(Zeros(Grow(Len(b.data), required)), b.data, 0))]

\* the stores of a write operation: at #byteOffset, which then advances
BufferStore(b, bytes) ==
    [b EXCEPT !.data = SetAt(@, bytes, b.byteOffset), !.byteOffset = @ + Len(bytes)]

\* allocate(n) and the store of n bytes
BufferPut(b, bytes) == BufferStore(BufferAllocate(b, Len(bytes)), bytes)

\* #writeByteArray and #writeString: the length, then allocate and data.set
BufferPutPrefixed(b, prefix, bytes) == BufferPut(BufferPut(b, prefix), bytes)

\* payloads that make the buffer grow: once, and twice in one #allocate
Payload(n) == [i \in 1..n |-> 1 + (i % 7)] \o <<>>

ArrayLengths == {0, 1500, 3100}

StringLengths == {1, 1100}

WriterInit ==
    /\ pc = "writing"
    /\ res = NewBuffer
    /\ res2 = NewBuffer
    /\ res3 = 0
    /\ text = <<>>
    /\ tree = NoValue
    /\ opts \in BOOLEAN     \* #littleEndian
    /\ data = NoValue

\* one write operation: the buffer, and the bytes handed over
Written(b, bytes) ==
    /\ res' = b
    /\ res2' = res
    /\ text' = text \o bytes
    /\ res3' = res3 + 1
    /\ UNCHANGED <<pc, tree, opts, data>>

BufWriteTagType ==
    /\ pc = "writing" /\ res3 < MaxWrites
    /\ \E type \in {TAG.COMPOUND} :
           Written(BufferPut(res, <<type>>), <<type>>)

BufWriteInt ==
    /\ pc = "writing" /\ res3 < MaxWrites
    /\ \E value \in {0 - 2} :
           Written(BufferPut(res, Int32Bytes(value, opts)), Int32Bytes(value, opts))

BufWriteByteArray ==
    /\ pc = "writing" /\ res3 < MaxWrites
    /\ \E n \in ArrayLengths :
           Written(BufferPutPrefixed(res, Int32Bytes(n, opts), Payload(n)),
                   Int32Bytes(n, opts) \o Payload(n))

BufWriteString ==
    /\ pc = "writing" /\ res3 < MaxWrites
    /\ \E n \in StringLengths :
           Written(BufferPutPrefixed(res, Int16Bytes(n, opts), Payload(n)),
                   Int16Bytes(n, opts) \o Payload(n))

\* this.#allocate(0); return this.#data.slice(0, this.#byteOffset)
BufReturn ==
    /\ pc = "writing"
    /\ tree' = Slice(BufferAllocate(res, 0).data, 0, res.byteOffset)
    /\ pc' = "written"
    /\ UNCHANGED <<res, res2, res3, text, opts, data>>

WriterNext ==
    BufWriteTagType \/ BufWriteInt \/ BufWriteByteArray \/ BufWriteString \/ BufReturn

SpecWriter == WriterInit /\ [][WriterNext]_vars

\* 1024 times a power of two
IsCapacity(n) == \E i \in DOMAIN Pow2 : i <= 21 /\ n = InitialCapacity * Pow2[i]

\* C28 (writer buffer invariants): throughout a write the capacity is 1024
\* times a power of two and never shrinks, the cursor is at most the
\* capacity after every write operation, growth leaves every byte already
\* written unchanged, and the output is exactly the bytes written, no more.
WriterBufferInvariants ==
    /\ IsCapacity(Len(res.data))
    /\ Len(res.data) >= Len(res2.data)
    /\ res.byteOffset <= Len(res.data)
    /\ res.byteOffset = Len(text)
    /\ SubSeq(res.data, 1, res2.byteOffset) = SubSeq(res2.data, 1, res2.byteOffset)
    /\ (pc = "written" => tree = text)

\* a write whose buffer grew twice and returned more than 4096 bytes
GrownOutputReturned ==
    /\ pc = "written"
    /\ Len(res.data) = 8 * InitialCapacity
    /\ Len(tree) > 4 * InitialCapacity
    /\ Len(res2.data) < Len(res.data)

---------------------------------------------------------------------------
(* One string through #writeString and back through #readString.  text is  *)
(* the string, opts the byte order; res keeps what was observed: the value *)
(* of the length prefix, the number of bytes written after it, and where   *)
(* the reader's cursor is after it has read the string from those bytes.   *)

ShortLengths == {0, 1, 2, 3, 127, 128, 255, 256, 257, 1000, 4096}

LongLengths == {65535, 65536, 65537}

StringInputs ==
    {StrRepeat(<<c>>, n) : c \in {48, 97, 122}, n \in ShortLengths}
        \cup {StrRepeat(<<97>>, n) : n \in LongLengths}

StringInit ==
    /\ pc = "start"
    /\ text \in StringInputs
    /\ opts \in BOOLEAN
    /\ res = NoValue
    /\ res2 = NoValue
    /\ res3 = NoValue
    /\ tree = NoValue
    /\ data = NoValue

\* what the reader makes of the bytes the writer wrote
StringReadBack(bytes, r) ==
    [prefix |-> Uint16Of(SubSeq(bytes, 1, 2), opts), payload |-> Len(bytes) - 2,
     ok |-> r.rd.ok, consumed |-> r.rd.off]

StringWritten(bytes) ==
    StringReadBack(bytes, readString(NewReader(bytes, opts, FALSE)))

StringWrite ==
    /\ pc = "start"
    /\ res' = StringWritten(writeString(NewWriter(opts), Chars(text) \o <<>>).bytes)
    /\ pc' = "written"
    /\ UNCHANGED <<tree, opts, data, text, res2, res3>>

StringNext == StringWrite

SpecString == StringInit /\ [][StringNext]_vars

\* C29 (string length prefix): the unsigned 16-bit length prefix the writer
\* emits for a string equals the number of payload bytes it writes after
\* it, and the reader consumes exactly the prefix and those bytes; also for
\* encoded lengths of 65536 bytes and more.
PrefixEqualsPayload ==
    pc = "written" =>
        res.prefix = res.payload /\ res.ok /\ res.consumed = 2 + res.payload

\* C30 (the binary reader terminates): a payload read, over any buffer and
\* in any dialect, returns or throws after finitely many steps, also when a
\* BYTE_ARRAY, STRING or LIST length is negative: it never reads more
\* payloads than the buffer has bytes, and MaxSteps more.
ReaderTerminates ==
    pc = "read" => res.err # NotEndingError

=============================================================================
